---- MODULE Spec2Model ----
(***************************************************************************)
(* Verification model of the herocgo static-site generator.                *)
(*                                                                         *)
(* The repository holds several generations of the same program.  The      *)
(* model follows its parts, each under a specification of its own:         *)
(*   Spec        the concurrent build orchestrator (main of src/main.go    *)
(*               and of src/unnamed/part_002), one goroutine per entry;    *)
(*               SpecLive adds the fairness of the scheduler               *)
(*   SpecFetch   the sequential, title-based generator (fetchPosts.go);    *)
(*               SpecFetchLive adds the progress of its one goroutine      *)
(*   SpecDoc     the processing of one document: extractFrontMatter and    *)
(*               processMarkdownFile in their four source versions         *)
(*   SpecTheme   loadTemplates and the lookups of its map                  *)
(*   SpecTax     renderTaxonomies                                          *)
(*   SpecStatic  copyStaticFiles                                           *)
(*   SpecPartial the helpers partial and partialCached                     *)
(*   SpecTwice   two builds of the same input, one after the other         *)
(***************************************************************************)
EXTENDS Integers, Sequences, FiniteSets, TLC

VARIABLES
    variant,       \* which source version of the program runs
    pc,            \* position of the main goroutine
    failedAt,      \* stage in which the build was aborted, "none" otherwise
    completed,     \* steps of main that have returned
    files,         \* os.ReadDir(postsDir): extension class of each entry
    nextFile,      \* index of the range loop over files
    wg,            \* sync.WaitGroup counter
    wpc,           \* position of the goroutine of each entry
    outcome,       \* result of processMarkdownFile for each entry
    errlog,        \* entries for which "Failed to process file" was logged
    mu,            \* sync.Mutex: 0 when free, else the holder
    tmp,           \* value a goroutine loaded for its counter increment
    totalPages,
    nonPageFiles,
    entries,       \* fetchPosts.go: the files filepath.Walk visits
    walkIdx,       \* fetchPosts.go: index of the entry the walk is at
    allPosts,      \* fetchPosts.go: titles of the posts collected by the walk
    postIdx,       \* fetchPosts.go: index of the loop over allPosts
    titleCount,    \* fetchPosts.go: file names already handed out
    written,       \* fetchPosts.go: file names written, in order
    staticFiles,
    content,       \* one document: the bytes of the file
    dpc,           \* one document: position in processMarkdownFile
    res,           \* one document: what extractFrontMatter returned
    frontMatter,   \* one document: the metadata processMarkdownFile goes on with
    warned,        \* one document: a front-matter warning was logged
    page,          \* one document: the data bound to the page template, if any
    derr,          \* one document: the error processMarkdownFile returned
    layouts,       \* theme: the files filepath.Walk meets under layouts/
    rootReadable,  \* theme: the layouts root can be read
    lidx,          \* theme: index of the file the walk is at
    templates,     \* theme: cache.templates, logical name -> layout file
    tpc,           \* theme: position in loadTemplates and its caller
    pageErr,       \* theme: what writeHTMLFile's template lookup returned
    taxonomies,    \* taxonomies: the taxonomies in the order they are ranged
    postsByTerm,   \* taxonomies: taxonomy -> term -> posts
    xi,            \* taxonomies: index of the taxonomy being rendered
    xj,            \* taxonomies: index of the term, 0 for the terms page
    taxOut,        \* taxonomies: output files created
    attempts,      \* taxonomies: outcome of each page rendering attempted
    xpc,           \* taxonomies: position in renderTaxonomies
    statics,       \* assets: the regular files under <theme>/static
    sidx,          \* assets: index of the file the walk is at
    dests,         \* assets: destination path -> static file copied there
    outDirs,       \* assets: directories that exist under the output root
    copyLog,       \* assets: files whose error the caller of the walk logged
    sres,          \* assets: what the walk function returned for each file
    spc,           \* assets: position in copyStaticFiles
    partialFS,     \* partials: what each file under layouts/partials holds
    pcache,        \* partials: the map of partialCachedFunc
    compiles,      \* partials: successful ParseFiles of the cached helper
    cpc,           \* partials: position of each caller in partialCached
    creq,          \* partials: name and data of each caller's current call
    ctmpl,         \* partials: the template each caller holds
    cres,          \* partials: what each caller's last call returned
    ncalls,        \* partials: calls each caller has made
    crashed,       \* partials: the runtime stopped the process
    run,           \* two builds: the build that runs (3: both are over)
    tree,          \* two builds: files and directories under the output root
    firstBuild,    \* two builds: what the first build left and in which order
    tstage,        \* two builds: position of main in the running build
    twork,         \* two builds: position of each page worker
    trest,         \* two builds: taxonomies the range has not visited yet
    tk,            \* two builds: index of the sequential loop that runs
    tposts,        \* two builds: allPosts of the running build
    tused,         \* two builds: titleCount of the running build
    tlog           \* two builds: paths in the order the running build wrote them

buildVars == <<variant, pc, failedAt, completed, files, nextFile, wg, wpc,
               outcome, errlog, mu, tmp, totalPages, nonPageFiles>>

fetchVars == <<entries, walkIdx, allPosts, postIdx, titleCount, written,
               staticFiles>>

docVars == <<content, dpc, res, frontMatter, warned, page, derr>>

themeVars == <<layouts, rootReadable, lidx, templates, tpc, pageErr>>

taxVars == <<taxonomies, postsByTerm, xi, xj, taxOut, attempts, xpc>>

staticVars == <<statics, sidx, dests, outDirs, copyLog, sres, spc>>

partialVars == <<partialFS, pcache, compiles, cpc, creq, ctmpl, cres, ncalls,
                 crashed>>

twiceVars == <<run, tree, firstBuild, tstage, twork, trest, tk, tposts, tused, tlog>>

siteVars == <<themeVars, taxVars, staticVars, partialVars, twiceVars>>

vars == <<buildVars, fetchVars, docVars, siteVars>>

(***************************************************************************)
(* Bounds                                                                  *)
(***************************************************************************)
MaxFiles == 2

MaxEntries == 2

MaxBlockLines == 2

(***************************************************************************)
(* The parts of the program a specification does not run stay as they are  *)
(* before their first statement.                                           *)
(***************************************************************************)
EmptyMap == [k \in {} |-> {}]

ThemeIdle ==
    /\ layouts = <<>>
    /\ rootReadable = TRUE
    /\ lidx = 1
    /\ templates = EmptyMap
    /\ tpc = "none"
    /\ pageErr = "unset"

TaxIdle ==
    /\ taxonomies = <<>>
    /\ postsByTerm = EmptyMap
    /\ xi = 1
    /\ xj = 0
    /\ taxOut = {}
    /\ attempts = EmptyMap
    /\ xpc = "none"

StaticIdle ==
    /\ statics = <<>>
    /\ sidx = 1
    /\ dests = EmptyMap
    /\ outDirs = {}
    /\ copyLog = {}
    /\ sres = EmptyMap
    /\ spc = "none"

PartialIdle ==
    /\ partialFS = EmptyMap
    /\ pcache = EmptyMap
    /\ compiles = EmptyMap
    /\ cpc = <<>>
    /\ creq = <<>>
    /\ ctmpl = <<>>
    /\ cres = <<>>
    /\ ncalls = <<>>
    /\ crashed = FALSE

NoTree == [files |-> EmptyMap, dirs |-> {}]

NoBuild == [tree |-> NoTree, log |-> <<>>]

TwiceIdle ==
    /\ run = 0
    /\ tree = NoTree
    /\ firstBuild = NoBuild
    /\ tstage = "none"
    /\ twork = <<>>
    /\ trest = {}
    /\ tk = 1
    /\ tposts = <<>>
    /\ tused = {}
    /\ tlog = <<>>

(***************************************************************************)
(* The build orchestrator                                                  *)
(***************************************************************************)
\* the zero value of the struct FrontMatter
ZeroFrontMatter == [Title |-> <<>>, Description |-> <<>>, Date |-> <<>>]

\* extractFrontMatter has not been called
NoResult == [fm |-> ZeroFrontMatter, body |-> <<>>, err |-> "unset"]

BuildVariants == {"main.go", "part_002"}

ExtClasses == {"md", "other"}

ProcessErrors == {"read", "convert", "template", "create", "execute"}

ProcessOutcomes == {"ok"} \cup ProcessErrors

RECURSIVE SeqsUpTo(_, _)
SeqsUpTo(S, n) ==
    IF n = 0 THEN {<<>>}
    ELSE LET shorter == SeqsUpTo(S, n - 1)
         IN  shorter \cup {Append(s, x) : s \in {t \in shorter : Len(t) = n - 1}, x \in S}

PipelineMutant(v) ==
    CASE v = "main.go" ->
           <<"loadConfig", "mkdirAll", "loadTemplates", "readDir", "dispatch",
             "wait", "copyStaticFiles", "renderTaxonomies", "done">>
      [] v = "part_002" ->
           <<"loadConfig", "mkdirAll", "readDir", "dispatch", "wait",
             "copyStaticFiles", "stats", "done">>
      [] OTHER ->
           <<"walk", "posts", "stats", "done">>

PipelineLateLoad(v) ==
    CASE v = "main.go" ->
           <<"loadConfig", "mkdirAll", "readDir", "dispatch", "loadTemplates",
             "wait", "renderTaxonomies", "copyStaticFiles", "done">>
      [] v = "part_002" ->
           <<"loadConfig", "mkdirAll", "readDir", "dispatch", "wait",
             "copyStaticFiles", "stats", "done">>
      [] OTHER ->
           <<"walk", "posts", "stats", "done">>

\* the statements of main, in program order
Pipeline(v) ==
    CASE v = "main.go" ->
           <<"loadConfig", "mkdirAll", "loadTemplates", "readDir", "dispatch",
             "wait", "renderTaxonomies", "copyStaticFiles", "done">>
      [] v = "part_002" ->
           <<"loadConfig", "mkdirAll", "readDir", "dispatch", "wait",
             "copyStaticFiles", "stats", "done">>
      [] OTHER ->
           <<"walk", "posts", "stats", "done">>

After(v, p) ==
    LET pl == Pipeline(v)
        i  == CHOOSE k \in 1..Len(pl) : pl[k] = p
    IN  pl[i + 1]

\* the stage of the orchestrator's state machine a statement of main runs in
StageOf(p) ==
    CASE p = "loadConfig"       -> "Init"
      [] p = "mkdirAll"         -> "ConfigLoaded"
      [] p = "loadTemplates"    -> "ConfigLoaded"
      [] p = "readDir"          -> "TemplatesLoaded"
      [] p = "walk"             -> "Init"
      [] p = "dispatch"         -> "PagesRendering"
      [] p = "wait"             -> "PagesRendering"
      [] p = "posts"            -> "PagesRendering"
      [] p = "renderTaxonomies" -> "TaxonomiesRendering"
      [] p = "copyStaticFiles"  -> "AssetsMirroring"
      [] OTHER                  -> "Done"

WgWaitMutant(n) == TRUE

\* wg.Wait() returns when the counter is zero
WgWait(n) == n = 0

LogFatalf(p) == "failed"

\* log.Printf in a goroutine: main goes on where it was
LogPrintf(p) == p

CountsPageMutant(o) == TRUE

\* totalPages++ sits in the else branch of the error check
CountsPage(o) == o = "ok"

BuildInit ==
    /\ variant \in BuildVariants
    /\ pc = "loadConfig"
    /\ failedAt = "none"
    /\ completed = {}
    /\ files \in SeqsUpTo(ExtClasses, MaxFiles)
    /\ nextFile = 1
    /\ wg = 0
    /\ wpc = [i \in 1..Len(files) |-> "none"]
    /\ outcome = [i \in 1..Len(files) |-> "none"]
    /\ errlog = {}
    /\ mu = 0
    /\ tmp = [i \in 1..Len(files) |-> 0]
    /\ totalPages = 0
    /\ nonPageFiles = 0
    /\ entries = <<>>
    /\ walkIdx = 1
    /\ allPosts = <<>>
    /\ postIdx = 1
    /\ titleCount = {}
    /\ written = <<>>
    /\ staticFiles = 0
    /\ content = <<>>
    /\ dpc = "none"
    /\ res = NoResult
    /\ frontMatter = ZeroFrontMatter
    /\ warned = FALSE
    /\ page = {}
    /\ derr = "nil"
    /\ ThemeIdle
    /\ TaxIdle
    /\ StaticIdle
    /\ PartialIdle
    /\ TwiceIdle

\* a statement of main that ends in log.Fatalf when it fails
FatalStep(p) ==
    /\ pc = p
    /\ \E ok \in BOOLEAN :
         IF ok
         THEN /\ pc' = After(variant, p)
              /\ completed' = completed \cup {p}
              /\ failedAt' = failedAt
         ELSE /\ pc' = "failed"
              /\ failedAt' = StageOf(p)
              /\ completed' = completed
    /\ UNCHANGED <<fetchVars, docVars, siteVars, variant, files, nextFile, wg, wpc, outcome, errlog, mu, tmp,
                   totalPages, nonPageFiles>>

LoadConfig == FatalStep("loadConfig")

MkdirAll == FatalStep("mkdirAll")

LoadTemplates == FatalStep("loadTemplates")

ReadDir == FatalStep("readDir")

\* one iteration of the range loop: wg.Add(1); go func(file)
Dispatch ==
    /\ pc = "dispatch"
    /\ nextFile <= Len(files)
    /\ wg' = wg + 1
    /\ wpc' = [wpc EXCEPT ![nextFile] = "run"]
    /\ nextFile' = nextFile + 1
    /\ UNCHANGED <<fetchVars, docVars, siteVars, variant, pc, failedAt, completed, files, outcome, errlog, mu,
                   tmp, totalPages, nonPageFiles>>

RangeEnd ==
    /\ pc = "dispatch"
    /\ nextFile > Len(files)
    /\ pc' = "wait"
    /\ completed' = completed \cup {"dispatch"}
    /\ UNCHANGED <<fetchVars, docVars, siteVars, variant, failedAt, files, nextFile, wg, wpc, outcome, errlog,
                   mu, tmp, totalPages, nonPageFiles>>

Wait ==
    /\ pc = "wait"
    /\ WgWait(wg)
    /\ pc' = After(variant, "wait")
    /\ completed' = completed \cup {"wait"}
    /\ UNCHANGED <<fetchVars, docVars, siteVars, variant, failedAt, files, nextFile, wg, wpc, outcome, errlog,
                   mu, tmp, totalPages, nonPageFiles>>

\* the body of the goroutine up to the counter update
WorkerRun(w) ==
    /\ pc # "failed"
    /\ wpc[w] = "run"
    /\ IF files[w] = "md"
       THEN \E o \in ProcessOutcomes :
              /\ outcome' = [outcome EXCEPT ![w] = o]
              /\ IF o = "ok"
                 THEN /\ errlog' = errlog
                      /\ pc' = pc
                 ELSE /\ errlog' = errlog \cup {w}
                      /\ pc' = LogPrintf(pc)
              /\ wpc' = [wpc EXCEPT ![w] =
                           IF variant = "part_002" /\ CountsPage(o)
                           THEN "lock" ELSE "exit"]
       ELSE /\ wpc' = [wpc EXCEPT ![w] =
                         IF variant = "part_002" THEN "lock" ELSE "exit"]
            /\ UNCHANGED <<outcome, errlog, pc>>
    /\ UNCHANGED <<fetchVars, docVars, siteVars, variant, failedAt, completed, files, nextFile, wg, mu, tmp,
                   totalPages, nonPageFiles>>

MutexFreeMutant(m) == TRUE

\* mu.Lock() returns when no goroutine holds the mutex
MutexFree(m) == m = 0

WorkerLock(w) ==
    /\ pc # "failed"
    /\ wpc[w] = "lock"
    /\ MutexFree(mu)
    /\ mu' = w
    /\ wpc' = [wpc EXCEPT ![w] = "load"]
    /\ UNCHANGED <<fetchVars, docVars, siteVars, variant, pc, failedAt, completed, files, nextFile, wg,
                   outcome, errlog, tmp, totalPages, nonPageFiles>>

\* counter++ is a load followed by a store
WorkerLoad(w) ==
    /\ pc # "failed"
    /\ wpc[w] = "load"
    /\ tmp' = [tmp EXCEPT ![w] =
                 IF files[w] = "md" THEN totalPages ELSE nonPageFiles]
    /\ wpc' = [wpc EXCEPT ![w] = "store"]
    /\ UNCHANGED <<fetchVars, docVars, siteVars, variant, pc, failedAt, completed, files, nextFile, wg,
                   outcome, errlog, mu, totalPages, nonPageFiles>>

WorkerStore(w) ==
    /\ pc # "failed"
    /\ wpc[w] = "store"
    /\ IF files[w] = "md"
       THEN /\ totalPages' = tmp[w] + 1
            /\ nonPageFiles' = nonPageFiles
       ELSE /\ nonPageFiles' = tmp[w] + 1
            /\ totalPages' = totalPages
    /\ wpc' = [wpc EXCEPT ![w] = "unlock"]
    /\ UNCHANGED <<fetchVars, docVars, siteVars, variant, pc, failedAt, completed, files, nextFile, wg,
                   outcome, errlog, mu, tmp>>

WorkerUnlock(w) ==
    /\ pc # "failed"
    /\ wpc[w] = "unlock"
    /\ mu' = 0
    /\ wpc' = [wpc EXCEPT ![w] = "exit"]
    /\ UNCHANGED <<fetchVars, docVars, siteVars, variant, pc, failedAt, completed, files, nextFile, wg,
                   outcome, errlog, tmp, totalPages, nonPageFiles>>

WgDoneMutant(n) == n

\* wg.Done() lowers the counter by one
WgDone(n) == n - 1

\* defer wg.Done()
WorkerDone(w) ==
    /\ pc # "failed"
    /\ wpc[w] = "exit"
    /\ wg' = WgDone(wg)
    /\ wpc' = [wpc EXCEPT ![w] = "done"]
    /\ UNCHANGED <<fetchVars, docVars, siteVars, variant, pc, failedAt, completed, files, nextFile, outcome,
                   errlog, mu, tmp, totalPages, nonPageFiles>>

\* a statement of main whose failure is at most logged
SoftStep(p) ==
    /\ pc = p
    /\ pc' = After(variant, p)
    /\ completed' = completed \cup {p}
    /\ UNCHANGED <<fetchVars, docVars, siteVars, variant, failedAt, files, nextFile, wg, wpc, outcome, errlog,
                   mu, tmp, totalPages, nonPageFiles>>

RenderTaxonomies == SoftStep("renderTaxonomies")

CopyStaticFiles == SoftStep("copyStaticFiles")

PrintStats == SoftStep("stats")

Next ==
    \/ LoadConfig
    \/ MkdirAll
    \/ LoadTemplates
    \/ ReadDir
    \/ Dispatch
    \/ RangeEnd
    \/ Wait
    \/ \E w \in 1..Len(files) : WorkerRun(w)
    \/ \E w \in 1..Len(files) : WorkerLock(w)
    \/ \E w \in 1..Len(files) : WorkerLoad(w)
    \/ \E w \in 1..Len(files) : WorkerStore(w)
    \/ \E w \in 1..Len(files) : WorkerUnlock(w)
    \/ \E w \in 1..Len(files) : WorkerDone(w)
    \/ RenderTaxonomies
    \/ CopyStaticFiles
    \/ PrintStats

Spec == BuildInit /\ [][Next]_vars

\* main is sequential and the Go scheduler lets every runnable goroutine
\* run: a step that can be taken is taken
SpecLive == Spec /\ WF_vars(Next)

(***************************************************************************)
(* Paths: sequences of characters in which a directory or file name's stem *)
(* and the separator are single characters                                 *)
(***************************************************************************)
Sep == "/"

\* filepath.Base of a path that names a file
Base(path) ==
    LET seps == {i \in 1..Len(path) : path[i] = Sep}
    IN  IF seps = {} THEN path
        ELSE SubSeq(path, (CHOOSE i \in seps : \A j \in seps : i >= j) + 1,
                    Len(path))

\* filepath.Dir of a path that names a file
Dir(path) == SubSeq(path, 1, Len(path) - Len(Base(path)) - 1)

\* os.MkdirAll(dir): the directory and the directories above it
osMkdirAll(dir) ==
    {<<>>, dir} \cup {SubSeq(dir, 1, k - 1) : k \in {i \in 1..Len(dir) : dir[i] = Sep}}

(***************************************************************************)
(* The title-based generator (src/fetchPosts.go)                           *)
(*                                                                         *)
(* A title is a sequence of characters.  The digits fmt.Sprintf("%d")      *)
(* writes are the characters ToString gives, which is exact while the      *)
(* count stays below ten.                                                  *)
(***************************************************************************)
workerVars == <<files, nextFile, wg, wpc, outcome, errlog, mu, tmp>>

FetchTitles == {<<"a">>, <<"A">>, <<"a", "-", "1">>, <<"a", " ", "1">>}

\* postsDirPath
PostsDir == <<"posts">>

\* the files the walk can meet: a .md file named after its title, a .json
\* file holding a list of posts, and any other file
EntryPool ==
    {[kind |-> "md", titles |-> <<t>>, folder |-> f] :
        t \in FetchTitles, f \in {PostsDir, PostsDir \o <<Sep, "y">>}}
    \cup {[kind |-> "json", titles |-> ts, folder |-> PostsDir] :
            ts \in {<<>>, <<<<"a">>, <<"a">>>>, <<<<"a", "-", "1">>, <<"A">>>>,
                    <<<<"y", Sep, "a">>>>}}
    \cup {[kind |-> "other", titles |-> <<>>, folder |-> PostsDir]}

\* posts[i].Folder = filepath.Dir(path): the folder of each post of allPosts
RECURSIVE PostFolders(_)
PostFolders(es) ==
    IF es = <<>> THEN <<>>
    ELSE [i \in 1..Len(Head(es).titles) |-> Head(es).folder] \o PostFolders(Tail(es))

\* filepath.Join(outputDir, post.Folder, fileName), below the output root
filePath(folder, fileName) == folder \o <<Sep>> \o fileName

\* the directories os.MkdirAll(folderPath) has made under an output root
\* that was empty, up to the post of index k
FolderPaths(es, k) == UNION {osMkdirAll(PostFolders(es)[j]) : j \in 1..k}

\* strings.ToLower(strings.ReplaceAll(title, " ", "-"))
baseFileName(title) ==
    [i \in 1..Len(title) |->
        LET c == IF title[i] = " " THEN "-" ELSE title[i]
        IN  IF c = "A" THEN "a" ELSE c]

\* fmt.Sprintf("%s.html", base) and fmt.Sprintf("%s-%d.html", base, count)
htmlName(base) == base \o <<".html">>

numberedName(base, count) == base \o <<"-", ToString(count), ".html">>

\* the loop "for titleCount[fileName]"
RECURSIVE disambiguate(_, _, _, _)
disambiguate(base, fileName, count, used) ==
    IF fileName \in used
    THEN disambiguate(base, numberedName(base, count), count + 1, used)
    ELSE fileName

FetchInit ==
    /\ variant = "fetchPosts.go"
    /\ pc = "walk"
    /\ failedAt = "none"
    /\ completed = {}
    /\ files = <<>>
    /\ nextFile = 1
    /\ wg = 0
    /\ wpc = <<>>
    /\ outcome = <<>>
    /\ errlog = {}
    /\ mu = 0
    /\ tmp = <<>>
    /\ totalPages = 0
    /\ nonPageFiles = 0
    /\ entries \in SeqsUpTo(EntryPool, MaxEntries)
    /\ walkIdx = 1
    /\ allPosts = <<>>
    /\ postIdx = 1
    /\ titleCount = {}
    /\ written = <<>>
    /\ staticFiles = 0
    /\ content = <<>>
    /\ dpc = "none"
    /\ res = NoResult
    /\ frontMatter = ZeroFrontMatter
    /\ warned = FALSE
    /\ page = {}
    /\ derr = "nil"
    /\ ThemeIdle
    /\ TaxIdle
    /\ StaticIdle
    /\ PartialIdle
    /\ TwiceIdle

\* the walk function on one file: its error is returned by filepath.Walk and
\* main prints it and returns
WalkEntry ==
    /\ pc = "walk"
    /\ walkIdx <= Len(entries)
    /\ LET e == entries[walkIdx]
       IN  \E ok \in BOOLEAN :
             IF e.kind = "other"
             THEN /\ staticFiles' = staticFiles + 1
                  /\ walkIdx' = walkIdx + 1
                  /\ UNCHANGED <<pc, failedAt, allPosts, totalPages, nonPageFiles>>
             ELSE IF ok
             THEN /\ allPosts' = allPosts \o e.titles
                  /\ totalPages' = totalPages + Len(e.titles)
                  /\ nonPageFiles' = IF e.kind = "json" THEN nonPageFiles + 1
                                     ELSE nonPageFiles
                  /\ walkIdx' = walkIdx + 1
                  /\ UNCHANGED <<pc, failedAt, staticFiles>>
             ELSE /\ pc' = "failed"
                  /\ failedAt' = StageOf("walk")
                  /\ UNCHANGED <<allPosts, totalPages, nonPageFiles, walkIdx,
                                 staticFiles>>
    /\ UNCHANGED <<workerVars, docVars, siteVars, variant, completed, entries, postIdx, titleCount,
                   written>>

\* the walk returned nil; os.MkdirAll(outputDir), its error dropped
WalkEnd ==
    /\ pc = "walk"
    /\ walkIdx > Len(entries)
    /\ pc' = After(variant, "walk")
    /\ completed' = completed \cup {"walk"}
    /\ UNCHANGED <<workerVars, docVars, siteVars, fetchVars, variant, failedAt, totalPages,
                   nonPageFiles>>

\* one iteration of the loop over allPosts
WritePost ==
    /\ pc = "posts"
    /\ postIdx <= Len(allPosts)
    /\ LET base     == baseFileName(allPosts[postIdx])
           fileName == disambiguate(base, htmlName(base), 1, titleCount)
       IN  /\ titleCount' = titleCount \cup {fileName}
           /\ \E ok \in BOOLEAN :
                IF ok /\ Dir(filePath(PostFolders(entries)[postIdx], fileName))
                            \in FolderPaths(entries, postIdx)
                THEN /\ written' = Append(written, fileName)
                     /\ postIdx' = postIdx + 1
                     /\ UNCHANGED <<pc, failedAt>>
                ELSE /\ pc' = "failed"
                     /\ failedAt' = StageOf("posts")
                     /\ UNCHANGED <<written, postIdx>>
    /\ UNCHANGED <<workerVars, docVars, siteVars, variant, completed, totalPages, nonPageFiles,
                   entries, walkIdx, allPosts, staticFiles>>

PostsEnd ==
    /\ pc = "posts"
    /\ postIdx > Len(allPosts)
    /\ pc' = After(variant, "posts")
    /\ completed' = completed \cup {"posts"}
    /\ UNCHANGED <<workerVars, docVars, siteVars, fetchVars, variant, failedAt, totalPages,
                   nonPageFiles>>

FetchNext ==
    \/ WalkEntry
    \/ WalkEnd
    \/ WritePost
    \/ PostsEnd
    \/ PrintStats

SpecFetch == FetchInit /\ [][FetchNext]_vars

\* main is one sequential program: a statement that can run does run
SpecFetchLive == SpecFetch /\ WF_vars(FetchNext)

(***************************************************************************)
(* One document: extractFrontMatter and processMarkdownFile                *)
(*                                                                         *)
(* A text is a sequence of characters.  The keys of the metadata dialects  *)
(* ("title:" in YAML, "title=" in TOML) and the empty list "[]" are single *)
(* characters of the model; none of them holds a character strings.Trim,   *)
(* strings.HasPrefix or strings.SplitN look for.                           *)
(***************************************************************************)
NL == "\n"

Dashes == <<"-", "-", "-">>

Pluses == <<"+", "+", "+">>

\* the cutset of strings.Trim(parts[0], "-+ \n")
Cutset == {"-", "+", " ", NL}

ValueChars == {"a", "b", "<", "-", "+", " "}

yamlField(key) ==
    CASE key = "title:"       -> "Title"
      [] key = "description:" -> "Description"
      [] key = "date:"        -> "Date"
      [] OTHER                -> "none"

tomlField(key) ==
    CASE key = "title="       -> "Title"
      [] key = "description=" -> "Description"
      [] key = "date="        -> "Date"
      [] OTHER                -> "none"

HasPrefix(s, prefix) ==
    /\ Len(s) >= Len(prefix)
    /\ SubSeq(s, 1, Len(prefix)) = prefix

\* strings.Index: position of the first occurrence of sep in s, 0 when none
Index(s, sep) ==
    LET hits == {i \in 1..(Len(s) - Len(sep) + 1) :
                    SubSeq(s, i, i + Len(sep) - 1) = sep}
    IN  IF hits = {} THEN 0
        ELSE CHOOSE i \in hits : \A j \in hits : i <= j

\* strings.SplitN(s, sep, 2)
SplitN(s, sep) ==
    LET i == Index(s, sep)
    IN  IF i = 0 THEN <<s>>
        ELSE <<SubSeq(s, 1, i - 1), SubSeq(s, i + Len(sep), Len(s))>>

\* strings.Trim(s, cutset)
Trim(s, cutset) ==
    LET keep == {i \in 1..Len(s) : s[i] \notin cutset}
    IN  IF keep = {} THEN <<>>
        ELSE SubSeq(s, CHOOSE i \in keep : \A j \in keep : i <= j,
                       CHOOSE i \in keep : \A j \in keep : i >= j)

RECURSIVE SplitLines(_)
SplitLines(s) ==
    LET i == Index(s, <<NL>>)
    IN  IF i = 0 THEN <<s>>
        ELSE <<SubSeq(s, 1, i - 1)>> \o SplitLines(SubSeq(s, i + 1, Len(s)))

\* what a line of a YAML mapping is to yaml.Unmarshal
yamlLineKind(line, first) ==
    LET l == Trim(line, {" "})
    IN  CASE l = <<>> -> "blank"
          [] l = Dashes /\ first -> "blank"
          [] l # <<>> /\ yamlField(l[1]) # "none" /\ Tail(l) = <<"[]">> -> "list"
          [] l # <<>> /\ yamlField(l[1]) # "none"
               /\ \A i \in 2..Len(l) : l[i] \in ValueChars -> "scalar"
          [] OTHER -> "invalid"

\* the decoding of the lines of a mapping into the struct: a value of the
\* wrong type and a repeated key are recorded and decoding goes on
RECURSIVE yamlDecode(_, _, _, _)
yamlDecode(lines, i, fm, seen) ==
    IF i > Len(lines) THEN [fm |-> fm, err |-> FALSE]
    ELSE LET l    == Trim(lines[i], {" "})
             kind == yamlLineKind(lines[i], i = 1)
         IN  IF kind = "blank" THEN yamlDecode(lines, i + 1, fm, seen)
             ELSE LET f == yamlField(l[1])
                  IN  IF kind = "list" \/ f \in seen
                      THEN [fm  |-> yamlDecode(lines, i + 1, fm, seen \cup {f}).fm,
                            err |-> TRUE]
                      ELSE yamlDecode(lines, i + 1,
                                      [fm EXCEPT ![f] = Trim(Tail(l), {" "})],
                                      seen \cup {f})

\* yaml.Unmarshal([]byte(meta), &fm): a text that does not parse fills nothing
yamlUnmarshal(meta) ==
    LET lines == SplitLines(meta)
    IN  IF \E i \in 1..Len(lines) : yamlLineKind(lines[i], i = 1) = "invalid"
        THEN [fm |-> ZeroFrontMatter, err |-> TRUE]
        ELSE yamlDecode(lines, 1, ZeroFrontMatter, {})

\* what a line of a TOML document is to toml.Unmarshal
tomlLineKind(line) ==
    LET l == Trim(line, {" "})
    IN  CASE l = <<>> -> "blank"
          [] l # <<>> /\ tomlField(l[1]) # "none" /\ Tail(l) = <<"[]">> -> "list"
          [] Len(l) >= 3 /\ tomlField(l[1]) # "none"
               /\ l[2] = "\"" /\ l[Len(l)] = "\""
               /\ \A i \in 3..(Len(l) - 1) : l[i] \in ValueChars -> "string"
          [] OTHER -> "invalid"

\* toml.Unmarshal([]byte(meta), &fm): expressions are decoded as they are
\* parsed, and the first error ends the decoding
RECURSIVE tomlDecode(_, _, _, _)
tomlDecode(lines, i, fm, seen) ==
    IF i > Len(lines) THEN [fm |-> fm, err |-> FALSE]
    ELSE LET l    == Trim(lines[i], {" "})
             kind == tomlLineKind(lines[i])
         IN  IF kind = "blank" THEN tomlDecode(lines, i + 1, fm, seen)
             ELSE IF kind # "string" \/ tomlField(l[1]) \in seen
             THEN [fm |-> fm, err |-> TRUE]
             ELSE tomlDecode(lines, i + 1,
                             [fm EXCEPT ![tomlField(l[1])] = SubSeq(l, 3, Len(l) - 1)],
                             seen \cup {tomlField(l[1])})

tomlUnmarshal(meta) == tomlDecode(SplitLines(meta), 1, ZeroFrontMatter, {})

\* extractFrontMatter of src/main.go: YAML only, and a block that is not
\* closed is no front matter
extractFrontMatterBasic(c) ==
    IF HasPrefix(c, Dashes)
    THEN LET parts == SplitN(c, <<NL>> \o Dashes \o <<NL>>)
         IN  IF Len(parts) = 2
             THEN LET r == yamlUnmarshal(Trim(parts[1], Cutset))
                  IN  [fm |-> r.fm, body |-> parts[2],
                       err |-> IF r.err THEN "yaml" ELSE "nil"]
             ELSE [fm |-> ZeroFrontMatter, body |-> c, err |-> "nil"]
    ELSE [fm |-> ZeroFrontMatter, body |-> c, err |-> "nil"]

extractFrontMatterStrictMutant(c) ==
    IF HasPrefix(c, Dashes) \/ HasPrefix(c, Pluses)
    THEN LET yaml  == HasPrefix(c, Dashes)
             parts == SplitN(c, <<NL>> \o (IF yaml THEN Dashes ELSE Pluses) \o <<NL>>)
         IN  IF Len(parts) = 2
             THEN LET meta == Trim(parts[1], Cutset)
                      r    == IF yaml THEN yamlUnmarshal(meta) ELSE tomlUnmarshal(meta)
                  IN  [fm |-> r.fm, body |-> parts[2],
                       err |-> IF ~r.err THEN "nil"
                               ELSE IF yaml THEN "yaml" ELSE "toml"]
             ELSE [fm |-> ZeroFrontMatter, body |-> c, err |-> "nil"]
    ELSE [fm |-> ZeroFrontMatter, body |-> c, err |-> "nil"]

\* extractFrontMatter of src/unnamed/part_002: both dialects, and a block
\* that is not closed is an error
extractFrontMatterStrict(c) ==
    IF HasPrefix(c, Dashes) \/ HasPrefix(c, Pluses)
    THEN LET yaml  == HasPrefix(c, Dashes)
             parts == SplitN(c, <<NL>> \o (IF yaml THEN Dashes ELSE Pluses) \o <<NL>>)
         IN  IF Len(parts) = 2
             THEN LET meta == Trim(parts[1], Cutset)
                      r    == IF yaml THEN yamlUnmarshal(meta) ELSE tomlUnmarshal(meta)
                  IN  [fm |-> r.fm, body |-> parts[2],
                       err |-> IF ~r.err THEN "nil"
                               ELSE IF yaml THEN "yaml" ELSE "toml"]
             ELSE [fm |-> ZeroFrontMatter, body |-> c, err |-> "delimiter"]
    ELSE [fm |-> ZeroFrontMatter, body |-> c, err |-> "nil"]

\* extractFrontMatter of src/unnamed/part_000: YAML only, and everything
\* but a closed block is an error
extractFrontMatterYamlOnly(c) ==
    IF HasPrefix(c, Dashes)
    THEN LET parts == SplitN(c, <<NL>> \o Dashes \o <<NL>>)
         IN  IF Len(parts) = 2
             THEN LET r == yamlUnmarshal(Trim(parts[1], Cutset))
                  IN  [fm |-> r.fm, body |-> parts[2],
                       err |-> IF r.err THEN "yaml" ELSE "nil"]
             ELSE [fm |-> ZeroFrontMatter, body |-> c, err |-> "delimiter"]
    ELSE [fm |-> ZeroFrontMatter, body |-> c, err |-> "delimiter"]

\* extractFrontMatter of src/unnamed/part_003: returns no error; the block
\* goes to the parser with its opening delimiter, and a parser error is
\* logged ("logged" in err)
extractFrontMatterLegacy(c) ==
    IF HasPrefix(c, Dashes) \/ HasPrefix(c, Pluses)
    THEN LET first == SplitN(c, <<NL>> \o Dashes \o <<NL>>)
             parts == IF Len(first) < 2
                      THEN SplitN(c, <<NL>> \o Pluses \o <<NL>>)
                      ELSE first
         IN  IF Len(parts) = 2
             THEN LET meta == parts[1]
                      r    == IF HasPrefix(meta, Dashes) THEN yamlUnmarshal(meta)
                              ELSE IF HasPrefix(meta, Pluses) THEN tomlUnmarshal(meta)
                              ELSE [fm |-> ZeroFrontMatter, err |-> FALSE]
                  IN  [fm |-> r.fm, body |-> parts[2],
                       err |-> IF r.err THEN "logged" ELSE "nil"]
             ELSE [fm |-> ZeroFrontMatter, body |-> c, err |-> "nil"]
    ELSE [fm |-> ZeroFrontMatter, body |-> c, err |-> "nil"]

DocVariants == {"main.go", "part_000", "part_002", "part_003"}

extractFrontMatter(v, c) ==
    CASE v = "main.go"  -> extractFrontMatterBasic(c)
      [] v = "part_000" -> extractFrontMatterYamlOnly(c)
      [] v = "part_002" -> extractFrontMatterStrict(c)
      [] v = "part_003" -> extractFrontMatterLegacy(c)

\* html.EscapeString
EscapeString(t) ==
    [i \in 1..Len(t) |->
        CASE t[i] = "<"  -> "&lt;"
          [] t[i] = ">"  -> "&gt;"
          [] t[i] = "&"  -> "&amp;"
          [] t[i] = "'"  -> "&#39;"
          [] t[i] = "\"" -> "&#34;"
          [] OTHER       -> t[i]]

\* convertMarkdownToHTML: the HTML goldmark renders for a body
convertMarkdownToHTML(body) == [html |-> body]

\* the data writeHTMLFile binds to the template; the fields of Page are
\* listed next to Content, Site is the same for every page
TemplateData(v, fm, htmlContent) ==
    IF v \in {"main.go", "part_000"}
    THEN [Title |-> fm.Title, Description |-> fm.Description, Date |-> fm.Date,
          Content |-> htmlContent]
    ELSE IF v = "part_002"
    THEN [Title |-> EscapeString(fm.Title),
          Description |-> EscapeString(fm.Description),
          Content |-> htmlContent]
    ELSE [Title |-> fm.Title, Description |-> fm.Description,
          Content |-> htmlContent]

\* the lines a metadata block is made of in the documents examined
LinePool ==
    { <<"description:", "<", "b">>,
      <<"title:", "a", "+">>,
      <<"date:", "[]">>,
      <<"title=", "\"", "a", "+", "\"">>,
      <<"date=", "[]">> }

RECURSIVE JoinLines(_)
JoinLines(ls) ==
    IF ls = <<>> THEN <<>> ELSE Head(ls) \o <<NL>> \o JoinLines(Tail(ls))

Openings == {<<>>, Dashes \o <<NL>>, Pluses \o <<NL>>}

Endings ==
    {<<>>, <<"a">>}
    \cup {d \o <<NL>> \o b : d \in {Dashes, Pluses}, b \in {<<>>, <<"a">>}}
    \cup {Dashes, Pluses}

Contents ==
    {o \o JoinLines(ls) \o e :
        o \in Openings, ls \in SeqsUpTo(LinePool, MaxBlockLines), e \in Endings}

DocInit ==
    /\ variant \in DocVariants
    /\ pc = "none"
    /\ failedAt = "none"
    /\ completed = {}
    /\ files = <<>>
    /\ nextFile = 1
    /\ wg = 0
    /\ wpc = <<>>
    /\ outcome = <<>>
    /\ errlog = {}
    /\ mu = 0
    /\ tmp = <<>>
    /\ totalPages = 0
    /\ nonPageFiles = 0
    /\ entries = <<>>
    /\ walkIdx = 1
    /\ allPosts = <<>>
    /\ postIdx = 1
    /\ titleCount = {}
    /\ written = <<>>
    /\ staticFiles = 0
    /\ content \in Contents
    /\ dpc = "read"
    /\ res = NoResult
    /\ frontMatter = ZeroFrontMatter
    /\ warned = FALSE
    /\ page = {}
    /\ derr = "nil"
    /\ ThemeIdle
    /\ TaxIdle
    /\ StaticIdle
    /\ PartialIdle
    /\ TwiceIdle

\* a step of processMarkdownFile that can fail: the error is returned
DocFails(e) ==
    /\ dpc' = "done"
    /\ derr' = e

\* os.ReadFile(filePath)
DocRead ==
    /\ dpc = "read"
    /\ \/ dpc' = "extract" /\ derr' = derr
       \/ DocFails("read")
    /\ UNCHANGED <<buildVars, fetchVars, siteVars, content, res, frontMatter, warned, page>>

\* extractFrontMatter(content) and what processMarkdownFile does with its
\* error: all versions log a warning, main.go and part_000 also go back to
\* the empty FrontMatter
DocExtract ==
    /\ dpc = "extract"
    /\ res' = extractFrontMatter(variant, content)
    /\ warned' = (res'.err # "nil")
    /\ frontMatter' = IF res'.err \notin {"nil", "logged"}
                         /\ variant \in {"main.go", "part_000"}
                      THEN ZeroFrontMatter
                      ELSE res'.fm
    /\ dpc' = "convert"
    /\ UNCHANGED <<buildVars, fetchVars, siteVars, content, page, derr>>

\* convertMarkdownToHTML(markdownContent)
DocConvert ==
    /\ dpc = "convert"
    /\ \/ dpc' = "write" /\ derr' = derr
       \/ DocFails("convert")
    /\ UNCHANGED <<buildVars, fetchVars, siteVars, content, res, frontMatter, warned, page>>

\* writeHTMLFile: load the template (part_003 has none), create the file,
\* execute the template on the bound data
DocWrite ==
    /\ dpc = "write"
    /\ \/ variant # "part_003" /\ DocFails("template") /\ page' = page
       \/ DocFails("create") /\ page' = page
       \/ /\ page' = {TemplateData(variant, frontMatter,
                                   convertMarkdownToHTML(res.body))}
          /\ \/ DocFails("execute")
             \/ dpc' = "done" /\ derr' = derr
    /\ UNCHANGED <<buildVars, fetchVars, siteVars, content, res, frontMatter, warned>>

DocNext ==
    \/ DocRead
    \/ DocExtract
    \/ DocConvert
    \/ DocWrite

SpecDoc == DocInit /\ [][DocNext]_vars

(***************************************************************************)
(* The Template Resolver: loadTemplates and the lookups of its map         *)
(*                                                                         *)
(* A path is a sequence of characters relative to <theme>/layouts; a file  *)
(* name's stem, the separator "/" and the extension ".html" are single     *)
(* characters of the model.  The versions are the program of src/main.go   *)
(* (the same loader as the first program of part_000), the second program  *)
(* of part_000 ("part_000b", lines 409-758) and part_001.                  *)
(***************************************************************************)
CoreIdle ==
    /\ pc = "none"
    /\ failedAt = "none"
    /\ completed = {}
    /\ files = <<>>
    /\ nextFile = 1
    /\ wg = 0
    /\ wpc = <<>>
    /\ outcome = <<>>
    /\ errlog = {}
    /\ mu = 0
    /\ tmp = <<>>
    /\ totalPages = 0
    /\ nonPageFiles = 0
    /\ entries = <<>>
    /\ walkIdx = 1
    /\ allPosts = <<>>
    /\ postIdx = 1
    /\ titleCount = {}
    /\ written = <<>>
    /\ staticFiles = 0
    /\ content = <<>>
    /\ dpc = "none"
    /\ res = NoResult
    /\ frontMatter = ZeroFrontMatter
    /\ warned = FALSE
    /\ page = {}
    /\ derr = "nil"

HtmlExt == <<".html">>

TaxonomyDir == <<"taxonomy", Sep>>

PartialsDir == <<"partials", Sep>>

ThemeVariants == {"main.go", "part_000b", "part_001"}

HasSuffix(s, suffix) ==
    /\ Len(s) >= Len(suffix)
    /\ SubSeq(s, Len(s) - Len(suffix) + 1, Len(s)) = suffix

TrimSuffix(s, suffix) ==
    IF HasSuffix(s, suffix) THEN SubSeq(s, 1, Len(s) - Len(suffix)) ELSE s

Contains(s, sub) == Index(s, sub) # 0

\* filepath.Rel(layoutsDir, path) is the path the model keeps
inferTemplateType(rel) ==
    IF HasPrefix(rel, TaxonomyDir) THEN rel
    ELSE TrimSuffix(Base(rel), HtmlExt)

\* the key of cache.templates a layout file is registered under
templateKey(v, rel) ==
    CASE v = "main.go"   -> inferTemplateType(rel)
      [] v = "part_000b" ->
           IF Contains(rel, TaxonomyDir \o <<"terms">> \o HtmlExt)
           THEN TaxonomyDir \o <<"terms">>
           ELSE inferTemplateType(rel)
      [] v = "part_001"  -> Base(rel)

\* m[k] = val on a map
Put(m, k, val) == [x \in DOMAIN m \cup {k} |-> IF x = k THEN val ELSE m[x]]

\* the files of a theme's layouts directory, in the order filepath.Walk
\* meets them (lexical)
LayoutPool ==
    << <<"base">> \o HtmlExt,
       <<"notes", ".txt">>,
       PartialsDir \o <<"base">> \o HtmlExt,
       TaxonomyDir \o <<"tags">> \o HtmlExt,
       TaxonomyDir \o <<"terms">> \o HtmlExt,
       <<"taxonomy">> \o HtmlExt >>

RECURSIVE LayoutTreesFrom(_)
LayoutTreesFrom(i) ==
    IF i > Len(LayoutPool) THEN {<<>>}
    ELSE LET rest == LayoutTreesFrom(i + 1)
         IN  rest \cup {<<[rel |-> LayoutPool[i], parses |-> b]>> \o r :
                           b \in BOOLEAN, r \in rest}

LayoutTrees == LayoutTreesFrom(1)

IsHtml(f) == HasSuffix(Base(f.rel), HtmlExt)

\* the files the glob layouts/partials/*.html matches
PartialFiles(ls) ==
    {i \in 1..Len(ls) : HasPrefix(ls[i].rel, PartialsDir) /\ IsHtml(ls[i])}

\* the partial bundle is built: ParseGlob fails when a partial does not
\* parse, and in part_000b also when the pattern matches no file
PartialsParse(v, ls) ==
    /\ \A i \in PartialFiles(ls) : ls[i].parses
    /\ (v = "part_000b" => PartialFiles(ls) # {})

\* a layout that does not parse: log.Printf and return nil in main.go and
\* part_001, return the error in part_000b
SkipsBrokenLayout(v) == v # "part_000b"

ThemeInit ==
    /\ variant \in ThemeVariants
    /\ CoreIdle
    /\ rootReadable \in BOOLEAN
    /\ layouts \in (IF rootReadable THEN LayoutTrees ELSE {<<>>})
    /\ lidx = 1
    /\ templates = EmptyMap
    /\ tpc = "partials"
    /\ pageErr = "unset"
    /\ TaxIdle
    /\ StaticIdle
    /\ PartialIdle
    /\ TwiceIdle

\* loadTemplates up to the walk: the partial bundle
ParsePartials ==
    /\ tpc = "partials"
    /\ tpc' = IF ~rootReadable \/ PartialFiles(layouts) = {}
              THEN (IF variant = "part_000b" THEN "failed" ELSE "walk")
              ELSE IF PartialsParse(variant, layouts) THEN "walk" ELSE "failed"
    /\ UNCHANGED <<twiceVars, buildVars, fetchVars, docVars, taxVars, staticVars, partialVars,
                   layouts, rootReadable, lidx, templates, pageErr>>

\* the walk function is called with the error of reading the root and
\* returns it; loadTemplates returns it and main ends in log.Fatalf
WalkRootError ==
    /\ tpc = "walk"
    /\ ~rootReadable
    /\ tpc' = "failed"
    /\ UNCHANGED <<twiceVars, buildVars, fetchVars, docVars, taxVars, staticVars, partialVars,
                   layouts, rootReadable, lidx, templates, pageErr>>

\* the walk function on one file
WalkLayout ==
    /\ tpc = "walk"
    /\ rootReadable
    /\ lidx <= Len(layouts)
    /\ LET f == layouts[lidx]
       IN  IF ~IsHtml(f)
           THEN /\ lidx' = lidx + 1
                /\ UNCHANGED <<templates, tpc>>
           ELSE IF f.parses
           THEN /\ templates' = Put(templates, templateKey(variant, f.rel), f.rel)
                /\ lidx' = lidx + 1
                /\ tpc' = tpc
           ELSE IF SkipsBrokenLayout(variant)
           THEN /\ lidx' = lidx + 1
                /\ UNCHANGED <<templates, tpc>>
           ELSE /\ tpc' = "failed"
                /\ UNCHANGED <<templates, lidx>>
    /\ UNCHANGED <<twiceVars, buildVars, fetchVars, docVars, taxVars, staticVars, partialVars,
                   layouts, rootReadable, pageErr>>

\* filepath.Walk returned nil: return cache, nil
WalkReturn ==
    /\ tpc = "walk"
    /\ rootReadable
    /\ lidx > Len(layouts)
    /\ tpc' = "loaded"
    /\ UNCHANGED <<twiceVars, buildVars, fetchVars, docVars, taxVars, staticVars, partialVars,
                   layouts, rootReadable, lidx, templates, pageErr>>

\* the template writeHTMLFile renders a page with: main.go parses
\* layouts/base.html itself, the other versions look the map up
BaseTemplate(v) ==
    CASE v = "main.go" ->
           {f.rel : f \in {layouts[i] : i \in {j \in 1..Len(layouts) :
                              layouts[j].rel = <<"base">> \o HtmlExt
                              /\ layouts[j].parses}}}
      [] v = "part_000b" ->
           IF <<"base">> \in DOMAIN templates THEN {templates[<<"base">>]} ELSE {}
      [] v = "part_001" ->
           IF <<"base">> \o HtmlExt \in DOMAIN templates
           THEN {templates[<<"base">> \o HtmlExt]} ELSE {}

\* writeHTMLFile of one page up to the template: a miss is the page's error
PageLookup ==
    /\ tpc = "loaded"
    /\ pageErr' = IF BaseTemplate(variant) = {} THEN "template" ELSE "nil"
    /\ tpc' = "rendered"
    /\ UNCHANGED <<twiceVars, buildVars, fetchVars, docVars, taxVars, staticVars, partialVars,
                   layouts, rootReadable, lidx, templates>>

ThemeNext ==
    \/ ParsePartials
    \/ WalkRootError
    \/ WalkLayout
    \/ WalkReturn
    \/ PageLookup

SpecTheme == ThemeInit /\ [][ThemeNext]_vars

(***************************************************************************)
(* The Taxonomy Indexer: renderTaxonomies                                  *)
(*                                                                         *)
(* The versions are the stub of src/main.go, the renderer of part_000 with *)
(* the loader of its first program ("part_000") and of its second program  *)
(* ("part_000b"), and the renderer of part_001.  main passes an example    *)
(* with no posts; the function is modelled for every postsByTerm.  A page  *)
(* is named <<taxonomy>> (the terms page) or <<taxonomy, term>>.           *)
(***************************************************************************)
TaxVariants == {"main.go", "part_000", "part_000b", "part_001"}

\* the loader a version of the renderer runs after
LoaderOf(v) == IF v = "part_000" THEN "main.go" ELSE v

\* taxonomies := map[string][]string{...}: the terms of each taxonomy
TermsOf ==
    [t \in {"tags", "categories"} |->
        IF t = "tags" THEN <<"tag1", "tag2">> ELSE <<"cat1">>]

\* the orders a range over the map can take
TaxonomyOrders == {<<"tags", "categories">>, <<"categories", "tags">>}

Posts == {<<>>, <<"p1">>}

\* postsByTerm: for every taxonomy a map from some of its terms to posts
PostsByTermOf(t) ==
    LET terms == {TermsOf[t][i] : i \in 1..Len(TermsOf[t])}
    IN  UNION {[d -> Posts] : d \in SUBSET terms}

PostIndexes == {[t \in DOMAIN TermsOf |-> f[t]] :
                  f \in [DOMAIN TermsOf -> UNION {PostsByTermOf(t) : t \in DOMAIN TermsOf}]}

RECURSIVE loadFrom(_, _, _, _)
loadFrom(v, ls, i, t) ==
    IF i > Len(ls) THEN t
    ELSE IF IsHtml(ls[i]) /\ ls[i].parses
    THEN loadFrom(v, ls, i + 1, Put(t, templateKey(v, ls[i].rel), ls[i].rel))
    ELSE loadFrom(v, ls, i + 1, t)

\* the themes examined: every file compiles, there is a partial, and the
\* layouts are those under taxonomy/ and taxonomy.html
TaxThemes ==
    {ls \in LayoutTrees :
        /\ \A i \in 1..Len(ls) : ls[i].parses
        /\ PartialFiles(ls) # {}
        /\ \A i \in 1..Len(ls) :
              ls[i].rel \notin {<<"base">> \o HtmlExt, <<"notes", ".txt">>}}

TermFailureReturnsMutant(o) == o # "ok"

\* the error of a page is dropped (part_000:305,310) or logged and the loop
\* goes on (part_001:318-326): renderTaxonomies does not return on it
TermFailureReturns(o) == FALSE

\* the template a page is rendered with
TemplateOf(v, p) ==
    IF v = "part_001" THEN <<"taxonomy">> \o HtmlExt
    ELSE IF Len(p) = 1 THEN TaxonomyDir \o <<"terms">>
    ELSE TaxonomyDir \o <<p[1]>>

\* the output file of a page
PagePath(v, p) ==
    IF Len(p) = 1 THEN <<p[1], Sep, "index.html">>
    ELSE IF v = "part_001" THEN <<p[1], Sep, p[2]>> \o HtmlExt
    ELSE <<p[1], Sep, p[2], Sep, "index.html">>

\* what can go wrong after the template was found: part_001 has no MkdirAll
IOOutcomes(v) ==
    IF v = "part_001" THEN {"ok", "create", "execute"}
    ELSE {"ok", "mkdir", "create", "execute"}

\* the first term index of a taxonomy; 0 stands for the terms page, which
\* part_001 does not render
FirstPage(v) == IF v = "part_001" THEN 1 ELSE 0

TaxInit ==
    /\ variant \in TaxVariants
    /\ CoreIdle
    /\ StaticIdle
    /\ PartialIdle
    /\ TwiceIdle
    /\ \E ls \in TaxThemes :
         /\ layouts = ls
         /\ templates = loadFrom(LoaderOf(variant), ls, 1, EmptyMap)
    /\ rootReadable = TRUE
    /\ lidx = Len(layouts) + 1
    /\ tpc = "loaded"
    /\ pageErr = "unset"
    /\ taxonomies \in TaxonomyOrders
    /\ postsByTerm \in PostIndexes
    /\ \A t \in DOMAIN postsByTerm : postsByTerm[t] \in PostsByTermOf(t)
    /\ xi = 1
    /\ xj = FirstPage(variant)
    /\ taxOut = {}
    /\ attempts = EmptyMap
    /\ xpc = "run"

\* one page: the template lookup, the directory, the file, the execution
RenderPage(p) ==
    IF TemplateOf(variant, p) \notin DOMAIN templates
    THEN /\ attempts' = Put(attempts, p, "template")
         /\ taxOut' = taxOut
         /\ xpc' = IF TermFailureReturns("template") THEN "done" ELSE xpc
    ELSE \E o \in IOOutcomes(variant) :
           /\ attempts' = Put(attempts, p, o)
           /\ taxOut' = IF o \in {"ok", "execute"}
                        THEN taxOut \cup {PagePath(variant, p)}
                        ELSE taxOut
           /\ xpc' = IF TermFailureReturns(o) THEN "done" ELSE xpc

\* renderTaxonomies of src/main.go has no statement
TaxStub ==
    /\ xpc = "run"
    /\ variant = "main.go"
    /\ xpc' = "done"
    /\ UNCHANGED <<twiceVars, buildVars, fetchVars, docVars, themeVars, staticVars, partialVars,
                   taxonomies, postsByTerm, xi, xj, taxOut, attempts>>

\* part_001: the taxonomy template is looked up once, before the loops
TaxNoTemplate ==
    /\ xpc = "run"
    /\ variant = "part_001"
    /\ TemplateOf(variant, <<>>) \notin DOMAIN templates
    /\ xpc' = "done"
    /\ UNCHANGED <<twiceVars, buildVars, fetchVars, docVars, themeVars, staticVars, partialVars,
                   taxonomies, postsByTerm, xi, xj, taxOut, attempts>>

TaxRuns ==
    /\ xpc = "run"
    /\ variant # "main.go"
    /\ (variant = "part_001" => TemplateOf(variant, <<>>) \in DOMAIN templates)
    /\ xi <= Len(taxonomies)

\* renderTermsPage(cache, taxonomy, terms, outputDir)
RenderTermsPage ==
    /\ TaxRuns
    /\ xj = 0
    /\ RenderPage(<<taxonomies[xi]>>)
    /\ xj' = 1
    /\ UNCHANGED <<twiceVars, buildVars, fetchVars, docVars, themeVars, staticVars, partialVars,
                   taxonomies, postsByTerm, xi>>

\* one iteration of the loop over the terms of a taxonomy
RenderTermPage ==
    /\ TaxRuns
    /\ xj >= 1
    /\ xj <= Len(TermsOf[taxonomies[xi]])
    /\ LET t    == taxonomies[xi]
           term == TermsOf[t][xj]
       IN  IF variant = "part_001" \/ term \in DOMAIN postsByTerm[t]
           THEN RenderPage(<<t, term>>)
           ELSE UNCHANGED <<attempts, taxOut, xpc>>
    /\ xj' = xj + 1
    /\ UNCHANGED <<twiceVars, buildVars, fetchVars, docVars, themeVars, staticVars, partialVars,
                   taxonomies, postsByTerm, xi>>

\* the range over the terms is over: next taxonomy
NextTaxonomy ==
    /\ TaxRuns
    /\ xj > Len(TermsOf[taxonomies[xi]])
    /\ xi' = xi + 1
    /\ xj' = FirstPage(variant)
    /\ UNCHANGED <<twiceVars, buildVars, fetchVars, docVars, themeVars, staticVars, partialVars,
                   taxonomies, postsByTerm, taxOut, attempts, xpc>>

TaxReturn ==
    /\ xpc = "run"
    /\ variant # "main.go"
    /\ xi > Len(taxonomies)
    /\ xpc' = "done"
    /\ UNCHANGED <<twiceVars, buildVars, fetchVars, docVars, themeVars, staticVars, partialVars,
                   taxonomies, postsByTerm, xi, xj, taxOut, attempts>>

TaxNext ==
    \/ TaxStub
    \/ TaxNoTemplate
    \/ RenderTermsPage
    \/ RenderTermPage
    \/ NextTaxonomy
    \/ TaxReturn

SpecTax == TaxInit /\ [][TaxNext]_vars

(***************************************************************************)
(* The Static Asset Mirror: copyStaticFiles                                *)
(*                                                                         *)
(* A path is relative to <theme>/static on the source side and to the      *)
(* output root on the destination side; <<>> is the root itself.  The      *)
(* versions are those of src/main.go, of part_000 (both programs have the  *)
(* same text), of part_001 and of part_002.                                *)
(***************************************************************************)
StaticVariants == {"main.go", "part_000", "part_001", "part_002"}

\* the regular files of a static directory, in the order of filepath.Walk
StaticPool ==
    << <<"a.css">>,
       <<"css", Sep, "a.css">>,
       <<"css", Sep, "b.css">>,
       <<"js", Sep, "a.css">> >>

RECURSIVE StaticTreesFrom(_)
StaticTreesFrom(i) ==
    IF i > Len(StaticPool) THEN {<<>>}
    ELSE LET rest == StaticTreesFrom(i + 1)
         IN  rest \cup {<<StaticPool[i]>> \o r : r \in rest}

\* the destination of a static file: filepath.Base(path) in main.go, the
\* path below the static directory in the other versions
destPath(v, rel) == IF v = "main.go" THEN Base(rel) ELSE rel

\* part_001 and part_002 call os.MkdirAll on the destination's directory
MakesDirs(v) == v \in {"part_001", "part_002"}

\* the caller logs the error of the walk; the first program of part_000
\* drops it
LogsWalkError(v) == v # "part_000"

StaticInit ==
    /\ variant \in StaticVariants
    /\ CoreIdle
    /\ TwiceIdle
    /\ ThemeIdle
    /\ TaxIdle
    /\ PartialIdle
    /\ statics \in StaticTreesFrom(1)
    /\ sidx = 1
    /\ dests = EmptyMap
    /\ outDirs \in {{<<>>}, {<<>>, <<"css">>}}
    /\ copyLog = {}
    /\ sres = EmptyMap
    /\ spc = "walk"

\* the walk function is called with the error of reading the static
\* directory and returns it
StaticRootError ==
    /\ spc = "walk"
    /\ sidx = 1
    /\ statics = <<>>
    /\ copyLog' = IF LogsWalkError(variant) THEN copyLog \cup {0} ELSE copyLog
    /\ spc' = "done"
    /\ UNCHANGED <<twiceVars, buildVars, fetchVars, docVars, themeVars, taxVars, partialVars,
                   statics, sidx, dests, outDirs, sres>>

\* the walk function on one regular file.  Its error ends the walk:
\* filepath.Walk returns it and the caller logs it
CopyStatic ==
    /\ spc = "walk"
    /\ sidx <= Len(statics)
    /\ LET rel  == statics[sidx]
           dest == destPath(variant, rel)
           made == IF MakesDirs(variant) THEN outDirs \cup osMkdirAll(Dir(dest))
                   ELSE outDirs
       IN  \E o \in {"ok", "mkdir", "open", "create", "copy"} :
             /\ (o = "mkdir" => MakesDirs(variant))
             /\ (o \in {"ok", "copy"} => Dir(dest) \in made)
             /\ sres' = Put(sres, sidx,
                            IF o = "create" /\ Dir(dest) \notin made THEN "nodir"
                            ELSE o)
             /\ outDirs' = IF o = "mkdir" THEN outDirs ELSE made
             /\ dests' = CASE o = "ok"   -> Put(dests, dest, rel)
                           [] o = "copy" -> Put(dests, dest, <<>>)
                           [] OTHER      -> dests
             /\ IF o = "ok"
                THEN /\ sidx' = sidx + 1
                     /\ UNCHANGED <<spc, copyLog>>
                ELSE /\ spc' = "done"
                     /\ copyLog' = IF LogsWalkError(variant)
                                   THEN copyLog \cup {sidx} ELSE copyLog
                     /\ sidx' = sidx
    /\ UNCHANGED <<twiceVars, buildVars, fetchVars, docVars, themeVars, taxVars, partialVars,
                   statics>>

\* filepath.Walk returned nil
StaticReturn ==
    /\ spc = "walk"
    /\ sidx > Len(statics)
    /\ spc' = "done"
    /\ UNCHANGED <<twiceVars, buildVars, fetchVars, docVars, themeVars, taxVars, partialVars,
                   statics, sidx, dests, outDirs, copyLog, sres>>

StaticNext ==
    \/ StaticRootError
    \/ CopyStatic
    \/ StaticReturn

SpecStatic == StaticInit /\ [][StaticNext]_vars

(***************************************************************************)
(* The partial helpers: partialFunc and partialCachedFunc                  *)
(*                                                                         *)
(* The closure partialCachedFunc returns is called from the templates of   *)
(* the cache.  In main.go no page worker executes such a template, so the  *)
(* calls come one after the other; in part_001 writeHTMLFile executes the  *)
(* cached base template in the goroutine of each page, so two callers run  *)
(* at once.  The map of the closure has no lock.                           *)
(***************************************************************************)
MaxCalls == 3

PartialVariants == {"main.go", "part_001"}

Callers(v) == IF v = "main.go" THEN {"w1"} ELSE {"w1", "w2"}

PartialNames == {"header.html", "footer.html"}

\* what a partial file holds: text that does not parse, a template without
\* actions, a template that evaluates a field of its data
PartialKinds == {"broken", "static", "field"}

\* the data bound: a value that has the field, a value that has not
DataKinds == {"page", "other"}

NoTemplate == [file |-> "none", body |-> "none"]

NoCall == [name |-> "none", data |-> "none", text |-> <<>>, err |-> <<>>]

\* filepath.Join(themeDir, "layouts", "partials", name)
partialPath(name) == PartialsDir \o <<name>>

cacheKeyMutant(name) == PartialsDir

\* the key of the map: cache[partialPath]
cacheKey(name) == partialPath(name)

\* template.ParseFiles(partialPath)
ParseFiles(name) ==
    IF partialFS[name] = "broken"
    THEN [tmpl |-> NoTemplate, err |-> <<"parse", name>>]
    ELSE [tmpl |-> [file |-> name, body |-> partialFS[name]], err |-> <<>>]

\* tmpl.Execute(&buf, data)
Execute(tmpl, data) ==
    IF tmpl.body = "field" /\ data = "other"
    THEN [text |-> <<>>, err |-> <<"exec", tmpl.file, data>>]
    ELSE [text |-> <<tmpl.file, tmpl.body>>
                   \o (IF tmpl.body = "field" THEN <<data>> ELSE <<>>),
          err |-> <<>>]

\* fmt.Errorf("... %s: %w", name, err)
Errorf(msg, name, err) == <<msg, name, err>>

\* errors.Unwrap
Unwrap(err) == IF err = <<>> THEN <<>> ELSE err[3]

\* the closure of partialFunc
partialFunc(name, data) ==
    LET p == ParseFiles(name)
    IN  IF p.err # <<>>
        THEN [text |-> <<>>, err |-> Errorf("failed to load partial", name, p.err)]
        ELSE LET e == Execute(p.tmpl, data)
             IN  IF e.err # <<>>
                 THEN [text |-> <<>>,
                       err |-> Errorf("failed to execute partial", name, e.err)]
                 ELSE [text |-> e.text, err |-> <<>>]

TotalCalls ==
    LET RECURSIVE Sum(_)
        Sum(S) == IF S = {} THEN 0
                  ELSE LET c == CHOOSE x \in S : TRUE
                       IN  ncalls[c] + Sum(S \ {c})
    IN  Sum(DOMAIN ncalls)

PartialInit ==
    /\ variant \in PartialVariants
    /\ CoreIdle
    /\ TwiceIdle
    /\ ThemeIdle
    /\ TaxIdle
    /\ StaticIdle
    /\ partialFS \in [PartialNames -> PartialKinds]
    /\ pcache = EmptyMap
    /\ compiles = [n \in PartialNames |-> 0]
    /\ cpc = [c \in Callers(variant) |-> "idle"]
    /\ creq = [c \in Callers(variant) |-> NoCall]
    /\ ctmpl = [c \in Callers(variant) |-> NoTemplate]
    /\ cres = [c \in Callers(variant) |-> NoCall]
    /\ ncalls = [c \in Callers(variant) |-> 0]
    /\ crashed = FALSE

\* a template calls partialCached name data
CachedCall(c) ==
    /\ ~crashed
    /\ cpc[c] = "idle"
    /\ TotalCalls < MaxCalls
    /\ \E n \in PartialNames, d \in DataKinds :
         creq' = [creq EXCEPT ![c] = [NoCall EXCEPT !.name = n, !.data = d]]
    /\ ncalls' = [ncalls EXCEPT ![c] = @ + 1]
    /\ cpc' = [cpc EXCEPT ![c] = "lookup"]
    /\ UNCHANGED <<twiceVars, buildVars, fetchVars, docVars, themeVars, taxVars, staticVars,
                   partialFS, pcache, compiles, ctmpl, cres, crashed>>

\* tmpl, ok := cache[partialPath]
CachedLookup(c) ==
    /\ ~crashed
    /\ cpc[c] = "lookup"
    /\ IF cacheKey(creq[c].name) \in DOMAIN pcache
       THEN /\ ctmpl' = [ctmpl EXCEPT ![c] = pcache[cacheKey(creq[c].name)]]
            /\ cpc' = [cpc EXCEPT ![c] = "execute"]
       ELSE /\ ctmpl' = ctmpl
            /\ cpc' = [cpc EXCEPT ![c] = "parse"]
    /\ UNCHANGED <<twiceVars, buildVars, fetchVars, docVars, themeVars, taxVars, staticVars,
                   partialFS, pcache, compiles, creq, cres, ncalls, crashed>>

\* tmpl, err = template.ParseFiles(partialPath) and the return on its error
CachedParse(c) ==
    /\ ~crashed
    /\ cpc[c] = "parse"
    /\ LET p == ParseFiles(creq[c].name)
       IN  IF p.err # <<>>
           THEN /\ cres' = [cres EXCEPT ![c] =
                      [creq[c] EXCEPT !.err = Errorf("failed to load cached partial",
                                                     creq[c].name, p.err)]]
                /\ cpc' = [cpc EXCEPT ![c] = "idle"]
                /\ UNCHANGED <<ctmpl, compiles>>
           ELSE /\ ctmpl' = [ctmpl EXCEPT ![c] = p.tmpl]
                /\ compiles' = [compiles EXCEPT ![creq[c].name] = @ + 1]
                /\ cpc' = [cpc EXCEPT ![c] = "store"]
                /\ cres' = cres
    /\ UNCHANGED <<twiceVars, buildVars, fetchVars, docVars, themeVars, taxVars, staticVars,
                   partialFS, pcache, creq, ncalls, crashed>>

\* another goroutine is at an access of the same map
MapAccessOverlaps(c) ==
    \E o \in DOMAIN cpc \ {c} : cpc[o] \in {"lookup", "store"}

\* cache[partialPath] = tmpl.  The write is not synchronised: when it
\* overlaps another goroutine's access the runtime may stop the process
\* ("concurrent map writes", "concurrent map read and map write")
CachedStore(c) ==
    /\ ~crashed
    /\ cpc[c] = "store"
    /\ \/ /\ pcache' = Put(pcache, cacheKey(creq[c].name), ctmpl[c])
          /\ cpc' = [cpc EXCEPT ![c] = "execute"]
          /\ crashed' = crashed
       \/ /\ MapAccessOverlaps(c)
          /\ crashed' = TRUE
          /\ UNCHANGED <<pcache, cpc>>
    /\ UNCHANGED <<twiceVars, buildVars, fetchVars, docVars, themeVars, taxVars, staticVars,
                   partialFS, compiles, creq, ctmpl, cres, ncalls>>

\* tmpl.Execute(&buf, data) and the return
CachedExecute(c) ==
    /\ ~crashed
    /\ cpc[c] = "execute"
    /\ LET e == Execute(ctmpl[c], creq[c].data)
       IN  cres' = [cres EXCEPT ![c] =
                      IF e.err # <<>>
                      THEN [creq[c] EXCEPT
                              !.err = Errorf("failed to execute cached partial",
                                             creq[c].name, e.err)]
                      ELSE [creq[c] EXCEPT !.text = e.text]]
    /\ cpc' = [cpc EXCEPT ![c] = "idle"]
    /\ UNCHANGED <<twiceVars, buildVars, fetchVars, docVars, themeVars, taxVars, staticVars,
                   partialFS, pcache, compiles, creq, ctmpl, ncalls, crashed>>

PartialNext ==
    \/ \E c \in DOMAIN cpc : CachedCall(c)
    \/ \E c \in DOMAIN cpc : CachedLookup(c)
    \/ \E c \in DOMAIN cpc : CachedParse(c)
    \/ \E c \in DOMAIN cpc : CachedStore(c)
    \/ \E c \in DOMAIN cpc : CachedExecute(c)

SpecPartial == PartialInit /\ [][PartialNext]_vars

(***************************************************************************)
(* Two builds of the same input, one after the other                       *)
(*                                                                         *)
(* The input is the content directory (files), the theme (layouts and the  *)
(* map loadTemplates makes of it), the static directory (statics) and, in  *)
(* the title-based generator, the posts directory (entries).  The output   *)
(* root is kept between the builds: no version removes it.  The versions   *)
(* are src/main.go, the second program of part_000 and src/fetchPosts.go.  *)
(***************************************************************************)
TwiceVariants == {"main.go", "part_000b", "fetchPosts.go"}

\* copyStaticFiles has the same text in both programs of part_000
StaticOf(v) == IF v = "part_000b" THEN "part_000" ELSE v

\* time.Now() in a build: the second build runs later than the first
Now(r) == ToString(r)

\* os.MkdirAll(publicDir): the output root
EmptyTree == [files |-> EmptyMap, dirs |-> {<<>>}]

\* the themes examined: every file compiles, there is a partial, and the
\* layouts are base.html and taxonomy/terms.html
TwiceThemes ==
    {ls \in LayoutTrees :
        /\ \A i \in 1..Len(ls) : ls[i].parses
        /\ PartialFiles(ls) # {}
        /\ \A i \in 1..Len(ls) :
              ls[i].rel \in {<<"base">> \o HtmlExt,
                             PartialsDir \o <<"base">> \o HtmlExt,
                             TaxonomyDir \o <<"terms">> \o HtmlExt}}

\* the entry of the content directory a worker is started for
entryName(w) == <<ToString(w)>> \o (IF files[w] = "md" THEN <<".md">> ELSE <<".txt">>)

\* filepath.Base(filePath[:len(filePath)-len(filepath.Ext(filePath))]) + ".html"
outputFileName(name) == Base(SubSeq(name, 1, Len(name) - 1)) \o HtmlExt

\* what the template makes of a document
pageHTML(name) == <<"page of">> \o name

\* the first statement of a build after the fatal ones
FirstStage(v) == IF v = "fetchPosts.go" THEN "walk" ELSE "pages"

\* os.Create(path) followed by a write: the directory has to exist
CanCreate(t, path) == Dir(path) \in t.dirs

WriteFile(t, path, text) == [t EXCEPT !.files = Put(t.files, path, text)]

postHTMLMutant(p) == <<"<title>", p.Title, "<h1>", p.Date, "<div>", p.Content>>

\* fmt.Sprintf of fetchPosts.go:105-117 on post.Title, post.Title, post.Content
postHTML(p) == <<"<title>", p.Title, "<h1>", p.Title, "<div>", p.Content>>

\* the posts an entry of the walk appends to allPosts
PostsOf(e, r) ==
    [i \in 1..Len(e.titles) |->
        [Title   |-> e.titles[i],
         Folder  |-> e.folder,
         Date    |-> IF e.kind = "md" THEN Now(r) ELSE "json",
         Content |-> <<"content of">> \o e.titles[i]]]

TwiceInit ==
    /\ variant \in TwiceVariants
    /\ pc = "none"
    /\ failedAt = "none"
    /\ completed = {}
    /\ files \in (IF variant = "fetchPosts.go" THEN {<<>>}
                  ELSE SeqsUpTo(ExtClasses, MaxFiles))
    /\ nextFile = 1
    /\ wg = 0
    /\ wpc = <<>>
    /\ outcome = <<>>
    /\ errlog = {}
    /\ mu = 0
    /\ tmp = <<>>
    /\ totalPages = 0
    /\ nonPageFiles = 0
    /\ entries \in (IF variant = "fetchPosts.go"
                    THEN SeqsUpTo(EntryPool, MaxEntries) ELSE {<<>>})
    /\ walkIdx = 1
    /\ allPosts = <<>>
    /\ postIdx = 1
    /\ titleCount = {}
    /\ written = <<>>
    /\ staticFiles = 0
    /\ content = <<>>
    /\ dpc = "none"
    /\ res = NoResult
    /\ frontMatter = ZeroFrontMatter
    /\ warned = FALSE
    /\ page = {}
    /\ derr = "nil"
    /\ IF variant = "fetchPosts.go"
       THEN ThemeIdle /\ StaticIdle
       ELSE /\ \E ls \in TwiceThemes :
                 /\ layouts = ls
                 /\ templates = loadFrom(variant, ls, 1, EmptyMap)
            /\ rootReadable = TRUE
            /\ lidx = Len(layouts) + 1
            /\ tpc = "loaded"
            /\ pageErr = "unset"
            /\ statics \in StaticTreesFrom(1)
            /\ sidx = 1
            /\ dests = EmptyMap
            /\ outDirs = {}
            /\ copyLog = {}
            /\ sres = EmptyMap
            /\ spc = "none"
    /\ TaxIdle
    /\ PartialIdle
    /\ run = 1
    /\ tree = EmptyTree
    /\ firstBuild = NoBuild
    /\ tstage = FirstStage(variant)
    /\ twork = [w \in 1..Len(files) |-> "run"]
    /\ trest = {}
    /\ tk = 1
    /\ tposts = <<>>
    /\ tused = {}
    /\ tlog = <<>>

TwiceInput == <<buildVars, fetchVars, docVars, themeVars, taxVars, staticVars, partialVars>>

\* the goroutine of one entry up to os.Create: an entry that is not a .md
\* file and a page without template write nothing
TwPageCreate(w) ==
    /\ tstage = "pages"
    /\ twork[w] = "run"
    /\ LET path == outputFileName(entryName(w))
       IN  IF files[w] = "md" /\ BaseTemplate(variant) # {} /\ CanCreate(tree, path)
           THEN /\ tree' = WriteFile(tree, path, <<>>)
                /\ twork' = [twork EXCEPT ![w] = "created"]
           ELSE /\ tree' = tree
                /\ twork' = [twork EXCEPT ![w] = "done"]
    /\ UNCHANGED <<TwiceInput, run, firstBuild, tstage, trest, tk, tposts, tused, tlog>>

\* tmpl.Execute(file, data) and wg.Done()
TwPageExecute(w) ==
    /\ tstage = "pages"
    /\ twork[w] = "created"
    /\ LET path == outputFileName(entryName(w))
       IN  /\ tree' = WriteFile(tree, path, pageHTML(entryName(w)))
           /\ tlog' = Append(tlog, path)
    /\ twork' = [twork EXCEPT ![w] = "done"]
    /\ UNCHANGED <<TwiceInput, run, firstBuild, tstage, trest, tk, tposts, tused>>

\* wg.Wait() returns; the map of main.go, part_000:498 has two taxonomies,
\* and renderTaxonomies of src/main.go has no statement
TwJoin ==
    /\ tstage = "pages"
    /\ \A w \in DOMAIN twork : twork[w] = "done"
    /\ tstage' = "taxonomies"
    /\ trest' = IF variant = "main.go" THEN {} ELSE DOMAIN TermsOf
    /\ UNCHANGED <<TwiceInput, run, tree, firstBuild, twork, tk, tposts, tused, tlog>>

\* one iteration of the range over the map taxonomies, in any order: the
\* terms page; postsByTerm of main has no term, so no term page is due
TwTaxonomy(t) ==
    /\ tstage = "taxonomies"
    /\ t \in trest
    /\ LET path == PagePath(variant, <<t>>)
       IN  IF TemplateOf(variant, <<t>>) \in DOMAIN templates
           THEN /\ tree' = WriteFile([tree EXCEPT !.dirs = @ \cup osMkdirAll(Dir(path))],
                                     path, <<"terms of", t>>)
                /\ tlog' = Append(tlog, path)
           ELSE UNCHANGED <<tree, tlog>>
    /\ trest' = trest \ {t}
    /\ UNCHANGED <<TwiceInput, run, firstBuild, tstage, twork, tk, tposts, tused>>

TwTaxReturn ==
    /\ tstage = "taxonomies"
    /\ trest = {}
    /\ tstage' = "static"
    /\ tk' = 1
    /\ UNCHANGED <<TwiceInput, run, tree, firstBuild, twork, trest, tposts, tused, tlog>>

\* the walk function of copyStaticFiles on one file; its error ends the walk
TwCopy ==
    /\ tstage = "static"
    /\ tk <= Len(statics)
    /\ LET dest == destPath(StaticOf(variant), statics[tk])
       IN  IF CanCreate(tree, dest)
           THEN /\ tree' = WriteFile(tree, dest, <<"copy of">> \o statics[tk])
                /\ tlog' = Append(tlog, dest)
                /\ tk' = tk + 1
                /\ tstage' = tstage
           ELSE /\ tstage' = "end"
                /\ UNCHANGED <<tree, tlog, tk>>
    /\ UNCHANGED <<TwiceInput, run, firstBuild, twork, trest, tposts, tused>>

TwStaticReturn ==
    /\ tstage = "static"
    /\ tk > Len(statics)
    /\ tstage' = "end"
    /\ UNCHANGED <<TwiceInput, run, tree, firstBuild, twork, trest, tk, tposts, tused, tlog>>

\* the walk function of fetchPosts.go on one file
TwWalkEntry ==
    /\ tstage = "walk"
    /\ tk <= Len(entries)
    /\ tposts' = tposts \o PostsOf(entries[tk], run)
    /\ tk' = tk + 1
    /\ UNCHANGED <<TwiceInput, run, tree, firstBuild, tstage, twork, trest, tused, tlog>>

\* the walk returned nil; os.MkdirAll(outputDir)
TwWalkEnd ==
    /\ tstage = "walk"
    /\ tk > Len(entries)
    /\ tstage' = "posts"
    /\ tk' = 1
    /\ UNCHANGED <<TwiceInput, run, tree, firstBuild, twork, trest, tposts, tused, tlog>>

\* one iteration of the loop over allPosts; main returns when the file
\* cannot be written
TwWritePost ==
    /\ tstage = "posts"
    /\ tk <= Len(tposts)
    /\ LET base     == baseFileName(tposts[tk].Title)
           fileName == disambiguate(base, htmlName(base), 1, tused)
           path     == filePath(tposts[tk].Folder, fileName)
           made     == [tree EXCEPT !.dirs = @ \cup osMkdirAll(tposts[tk].Folder)]
       IN  /\ tused' = tused \cup {fileName}
           /\ IF CanCreate(made, path)
              THEN /\ tree' = WriteFile(made, path, postHTML(tposts[tk]))
                   /\ tlog' = Append(tlog, path)
                   /\ tk' = tk + 1
                   /\ tstage' = tstage
              ELSE /\ tree' = made
                   /\ tstage' = "end"
                   /\ UNCHANGED <<tlog, tk>>
    /\ UNCHANGED <<TwiceInput, run, firstBuild, twork, trest, tposts>>

TwPostsEnd ==
    /\ tstage = "posts"
    /\ tk > Len(tposts)
    /\ tstage' = "end"
    /\ UNCHANGED <<TwiceInput, run, tree, firstBuild, twork, trest, tk, tposts, tused, tlog>>

\* main returns; the program is started again on the same directories
TwNextBuild ==
    /\ tstage = "end"
    /\ IF run = 1
       THEN /\ run' = 2
            /\ firstBuild' = [tree |-> tree, log |-> tlog]
            /\ tstage' = FirstStage(variant)
            /\ twork' = [w \in 1..Len(files) |-> "run"]
            /\ tlog' = <<>>
       ELSE /\ run' = 3
            /\ tstage' = "over"
            /\ UNCHANGED <<firstBuild, twork, tlog>>
    /\ trest' = {}
    /\ tk' = 1
    /\ tposts' = <<>>
    /\ tused' = {}
    /\ UNCHANGED <<TwiceInput, tree>>

TwiceNext ==
    \/ \E w \in DOMAIN twork : TwPageCreate(w)
    \/ \E w \in DOMAIN twork : TwPageExecute(w)
    \/ TwJoin
    \/ \E t \in DOMAIN TermsOf : TwTaxonomy(t)
    \/ TwTaxReturn
    \/ TwCopy
    \/ TwStaticReturn
    \/ TwWalkEntry
    \/ TwWalkEnd
    \/ TwWritePost
    \/ TwPostsEnd
    \/ TwNextBuild

SpecTwice == TwiceInit /\ [][TwiceNext]_vars

(***************************************************************************)
(* Properties of the build orchestrator                                    *)
(***************************************************************************)
MdEntries == {i \in 1..Len(files) : files[i] = "md"}

Rendered == {i \in MdEntries : outcome[i] = "ok"}

Joined == "wait" \in completed

AllWorkersDone == \A i \in 1..Len(files) : wpc[i] = "done"

Ended == pc \in {"done", "failed"}

\* C1 as stated: after the join the page counter equals the number of .md
\* entries of the content directory, for every interleaving of the workers.
C1_CounterEqualsMdEntries ==
    (variant = "part_002" /\ Joined) => totalPages = Cardinality(MdEntries)

\* C1 amended: after the join the page counter equals the number of .md
\* entries whose processMarkdownFile returned no error, for every
\* interleaving of the workers.
C1_CounterEqualsRenderedPages ==
    (variant = "part_002" /\ Joined) => totalPages = Cardinality(Rendered)

C1_Witness ==
    /\ variant = "part_002"
    /\ Joined
    /\ Cardinality(MdEntries) >= 2
    /\ totalPages >= 1
    /\ \E i \in MdEntries : outcome[i] \in ProcessErrors

\* C2: while main is in renderTaxonomies every dispatched page worker has
\* finished, and every directory entry has been dispatched.
C2_TaxonomiesAfterJoin ==
    pc = "renderTaxonomies" => (nextFile > Len(files) /\ AllWorkersDone)

C2_Witness ==
    /\ pc = "renderTaxonomies"
    /\ Len(files) >= 2
    /\ \E i \in MdEntries : outcome[i] = "ok"

\* C3: while main is in copyStaticFiles every page worker has finished and,
\* in the version that renders taxonomies, renderTaxonomies has returned.
C3_StaticAfterPagesAndTaxonomies ==
    pc = "copyStaticFiles" =>
        /\ nextFile > Len(files)
        /\ AllWorkersDone
        /\ (variant = "main.go" => "renderTaxonomies" \in completed)

C3_Witness ==
    /\ pc = "copyStaticFiles"
    /\ variant = "main.go"
    /\ Len(files) >= 2
    /\ "renderTaxonomies" \in completed

\* C5: when the build has ended after the content directory was read, every
\* .md entry has been processed whatever happened to the others, and the
\* error log names exactly the entries whose processing failed.
C5_FailureIsPerFile ==
    ("readDir" \in completed /\ Ended) =>
        /\ \A i \in MdEntries : outcome[i] \in ProcessOutcomes
        /\ errlog = {i \in MdEntries : outcome[i] \in ProcessErrors}

C5_Witness ==
    /\ pc = "done"
    /\ \E i, j \in MdEntries : outcome[i] \in ProcessErrors /\ outcome[j] = "ok"

\* C4: the build is aborted only in the stages Init, ConfigLoaded and
\* TemplatesLoaded; a failure while pages are rendered, taxonomies are
\* rendered or assets are mirrored never ends the build.
C4_FailedOnlyInFatalStages ==
    /\ failedAt \in {"none", "Init", "ConfigLoaded", "TemplatesLoaded"}
    /\ (pc = "failed" => failedAt # "none")

(***************************************************************************)
(* Properties of extractFrontMatter and processMarkdownFile                *)
(***************************************************************************)
Extracted == res.err # "unset"

BeginsWithDelimiter(c) == HasPrefix(c, Dashes) \/ HasPrefix(c, Pluses)

Delimiter(c) == IF HasPrefix(c, Dashes) THEN Dashes ELSE Pluses

\* a line after the first that is the delimiter the text opens with
HasClosingLine(c) ==
    LET ls == SplitLines(c)
    IN  \E i \in 2..Len(ls) : ls[i] = Delimiter(c)

\* the text cut at the first closing delimiter line that is followed by a
\* line break
CutAtClosing(c) == SplitN(c, <<NL>> \o Delimiter(c) \o <<NL>>)

\* the exact text between the delimiter lines
Block(c) ==
    LET head == CutAtClosing(c)[1]
    IN  SubSeq(head, Len(Delimiter(c)) + 2, Len(head))

ParsedBlock(c) ==
    IF HasPrefix(c, Dashes) THEN yamlUnmarshal(Block(c)) ELSE tomlUnmarshal(Block(c))

WellFormed(c) ==
    /\ BeginsWithDelimiter(c)
    /\ SplitLines(c)[1] = Delimiter(c)
    /\ Len(CutAtClosing(c)) = 2
    /\ ~ParsedBlock(c).err

\* C6: for a content that begins with neither "---" nor "+++",
\* extractFrontMatter returns the empty FrontMatter, the content unchanged as
\* the body, and no error.
C6_NoDelimiterIsNoFrontMatter ==
    (variant \in {"main.go", "part_000", "part_002"} /\ Extracted
       /\ ~BeginsWithDelimiter(content))
    => (res.fm = ZeroFrontMatter /\ res.body = content /\ res.err = "nil")

\* C7 as stated: for a content that opens with a delimiter and has no
\* closing delimiter line, extractFrontMatter returns the zero FrontMatter,
\* the whole content as the body and a non-nil error.
C7_UnclosedBlockIsAnError ==
    (variant \in {"main.go", "part_002"} /\ Extracted
       /\ BeginsWithDelimiter(content) /\ ~HasClosingLine(content))
    => (res.fm = ZeroFrontMatter /\ res.body = content /\ res.err # "nil")

\* C7 amended: for a content that opens with a delimiter and has no closing
\* delimiter line, extractFrontMatter returns the zero FrontMatter and the
\* whole content as the body; the error is non-nil in the strict extractor
\* (part_002) and nil in the basic extractor (main.go).
C7_UnclosedBlockKeepsContent ==
    (variant \in {"main.go", "part_002"} /\ Extracted
       /\ BeginsWithDelimiter(content) /\ ~HasClosingLine(content))
    => /\ res.fm = ZeroFrontMatter
       /\ res.body = content
       /\ res.err = IF variant = "part_002" THEN "delimiter" ELSE "nil"

C7_Witness ==
    /\ variant = "part_002"
    /\ Extracted
    /\ BeginsWithDelimiter(content)
    /\ ~HasClosingLine(content)
    /\ Len(content) > 4
    /\ res.err = "delimiter"

\* C8: when the block is delimited and its parser fails, extractFrontMatter
\* returns the zero FrontMatter and the whole content as the body, the
\* metadata block included.
C8_ParseFailureKeepsContent ==
    (variant \in {"main.go", "part_002"} /\ Extracted
       /\ res.err \in {"yaml", "toml"})
    => (res.fm = ZeroFrontMatter /\ res.body = content)

\* C9: a document with malformed front matter is still rendered, and the
\* page is bound to empty title, description and date.
C9_MalformedBindsDefaults ==
    (variant \in {"main.go", "part_002", "part_003"} /\ Extracted
       /\ res.err # "nil")
    => /\ \A p \in page :
            /\ p.Title = <<>>
            /\ p.Description = <<>>
            /\ ("Date" \in DOMAIN p => p.Date = <<>>)
       /\ (dpc = "done" /\ derr = "nil" => page # {})

\* C10: for a well-formed metadata block of either dialect the FrontMatter
\* returned has the fields the dialect's parser yields for the exact text
\* between the delimiters, and the body is the text after the closing
\* delimiter line.
C10_FieldsEqualParsedBlock ==
    (variant \in {"main.go", "part_002", "part_003"} /\ Extracted
       /\ WellFormed(content))
    => /\ res.fm = ParsedBlock(content).fm
       /\ res.body = CutAtClosing(content)[2]

(***************************************************************************)
(* Properties of the Template Resolver                                     *)
(***************************************************************************)
Loaded == tpc \in {"loaded", "rendered"}

ParsedLayouts == {i \in 1..Len(layouts) : IsHtml(layouts[i]) /\ layouts[i].parses}

\* the logical name the consumers look a layout file up by: renderTermsPage
\* asks for "taxonomy/terms", renderTaxonomyPage for "taxonomy/<taxonomy>",
\* writeHTMLFile for "base"
LookupName(rel) ==
    IF HasPrefix(rel, TaxonomyDir) THEN TrimSuffix(rel, HtmlExt)
    ELSE TrimSuffix(Base(rel), HtmlExt)

\* C11: once loadTemplates has returned, every layout file that compiled is
\* found under its logical name: taxonomy/<name>.html under "taxonomy/<name>",
\* any other file under its base name without the extension.
C11_LookupsFindCompiledLayout ==
    (variant \in {"main.go", "part_000b"} /\ Loaded) =>
        \A i \in ParsedLayouts :
            LET rel == layouts[i].rel
            IN  /\ LookupName(rel) \in DOMAIN templates
                /\ Base(templates[LookupName(rel)]) = Base(rel)
                /\ (HasPrefix(rel, TaxonomyDir) => templates[LookupName(rel)] = rel)

\* C12: a layout file that fails to compile does not fail loadTemplates:
\* with a readable layouts root and a partial bundle that parses,
\* loadTemplates returns with every layout that compiled registered, and the
\* page whose base template was skipped gets an error.
C12_BrokenLayoutIsSkipped ==
    (variant \in {"main.go", "part_000b"} /\ rootReadable
       /\ PartialsParse(variant, layouts))
    => /\ tpc # "failed"
       /\ (Loaded => \A i \in ParsedLayouts :
                        templateKey(variant, layouts[i].rel) \in DOMAIN templates)
       /\ (tpc = "rendered"
             /\ (\A i \in ParsedLayouts : Base(layouts[i].rel) # <<"base">> \o HtmlExt)
           => pageErr # "nil")

(***************************************************************************)
(* Properties of the partial helpers                                       *)
(***************************************************************************)
Returned(c) == cres[c].name # "none"

C14_CompiledAtMostOnce ==
    \A n \in DOMAIN compiles : compiles[n] <= 1

(***************************************************************************)
(* Properties of the Taxonomy Indexer                                      *)
(***************************************************************************)
TermSet(t) == {TermsOf[t][i] : i \in 1..Len(TermsOf[t])}

HasPages(t, term) ==
    term \in DOMAIN postsByTerm[t] /\ postsByTerm[t][term] # <<>>

\* the theme holds a layout file that compiled at this path
ThemeHas(rel) == \E i \in ParsedLayouts : layouts[i].rel = rel

\* no directory or file operation of the page failed
NoIOFailure(p) ==
    p \in DOMAIN attempts => attempts[p] \notin {"mkdir", "create", "execute"}

\* the term pages written for a pair, in either output layout
TermPages(t, term) ==
    {PagePath(v, <<t, term>>) : v \in TaxVariants} \cap taxOut

\* C15: for a taxonomy with terms and no associated page, when the theme has
\* the terms template and no file operation fails, the terms listing page
\* <taxonomy>/index.html is written and no term page of the taxonomy is.
C15_TermsPageWithoutTermPages ==
    (variant \in {"main.go", "part_000"} /\ xpc = "done") =>
        \A t \in DOMAIN TermsOf :
            (/\ \A term \in TermSet(t) : ~HasPages(t, term)
             /\ ThemeHas(TaxonomyDir \o <<"terms">> \o HtmlExt)
             /\ NoIOFailure(<<t>>))
            => /\ PagePath(variant, <<t>>) \in taxOut
               /\ \A term \in TermSet(t) : TermPages(t, term) = {}

\* C16: when the theme has the template of the taxonomy and no file
\* operation fails, a term page is written exactly for the pairs
\* (taxonomy, term) with at least one associated page.
C16_TermPageIffHasPages ==
    (variant \in {"part_000", "part_001"} /\ xpc = "done") =>
        \A t \in DOMAIN TermsOf : \A term \in TermSet(t) :
            (/\ ThemeHas(IF variant = "part_001" THEN <<"taxonomy">> \o HtmlExt
                         ELSE TaxonomyDir \o <<t>> \o HtmlExt)
             /\ NoIOFailure(<<t, term>>))
            => (TermPages(t, term) # {} <=> HasPages(t, term))

\* the pairs renderTaxonomies renders a term page for
Due(t, term) == variant = "part_001" \/ term \in DOMAIN postsByTerm[t]

Failed(p) == p \in DOMAIN attempts /\ attempts[p] # "ok"

\* C17: when renderTaxonomies has returned and the rendering of a term page
\* failed, every other term page it renders, of the same taxonomy and of the
\* others, was attempted, and each page's file is there whenever its own
\* creation succeeded.
C17_TermFailureIsIsolated ==
    (variant \in {"part_000", "part_000b", "part_001"} /\ xpc = "done"
       /\ \E p \in DOMAIN attempts : Len(p) = 2 /\ Failed(p))
    => /\ \A t \in DOMAIN TermsOf : \A term \in TermSet(t) :
            Due(t, term) => <<t, term>> \in DOMAIN attempts
       /\ \A p \in DOMAIN attempts :
            attempts[p] \in {"ok", "execute"} <=> PagePath(variant, p) \in taxOut

C17_Witness ==
    /\ xpc = "done"
    /\ taxonomies[1] = "tags"
    /\ <<"tags", "tag1">> \in DOMAIN attempts
    /\ attempts[<<"tags", "tag1">>] = "create"
    /\ <<"tags", "tag2">> \in DOMAIN attempts
    /\ attempts[<<"tags", "tag2">>] = "ok"
    /\ <<"categories", "cat1">> \in DOMAIN attempts
    /\ attempts[<<"categories", "cat1">>] = "ok"

(***************************************************************************)
(* Properties of the Static Asset Mirror                                   *)
(***************************************************************************)
CopyFailed(i) == i \in DOMAIN sres /\ sres[i] # "ok"

\* C18: when copyStaticFiles has returned and the copy of a static file
\* failed, the failure was logged and every other regular file under the
\* static directory was copied or at least tried.
C18_CopyFailureIsPerFile ==
    (spc = "done" /\ variant \in {"main.go", "part_000", "part_002"}) =>
        \A i \in 1..Len(statics) :
            CopyFailed(i) =>
                /\ i \in copyLog
                /\ \A j \in 1..Len(statics) : j \in DOMAIN sres

\* C19: when copyStaticFiles has returned and nothing failed but for a
\* missing destination directory, every regular file is at its own relative
\* path under the output root, in a directory that exists; so no two files
\* share a destination.
C19_CopyKeepsRelativePaths ==
    (spc = "done" /\ variant \in {"main.go", "part_000"}
       /\ \A i \in DOMAIN sres : sres[i] \in {"ok", "nodir"})
    => \A i \in 1..Len(statics) :
          /\ statics[i] \in DOMAIN dests
          /\ dests[statics[i]] = statics[i]
          /\ Dir(statics[i]) \in outDirs

(***************************************************************************)
(* Progress of the build                                                   *)
(***************************************************************************)
\* the statements that end in a fatal error have all returned
PastFatalStages ==
    \/ "readDir" \in completed
    \/ (variant = "fetchPosts.go" /\ "walk" \in completed)

StatsReported == "stats" \in completed

\* C20: every build that got past the fatal stages eventually prints the
\* final statistics, whatever failed for single pages or files after them.
C20_StatsEventuallyReported == PastFatalStages ~> StatsReported

(***************************************************************************)
(* Markup in the page values                                               *)
(***************************************************************************)

\* the title and the description html.EscapeString makes of a front matter
Escaped(fm) ==
    [Title |-> EscapeString(fm.Title), Description |-> EscapeString(fm.Description)]

\* C21: every title and description bound to a page's output is the
\* HTML-escaped front-matter value: no page write binds a raw value.
C21_PageValuesEscaped ==
    \A d \in page :
        /\ d.Title = Escaped(frontMatter).Title
        /\ d.Description = Escaped(frontMatter).Description

(***************************************************************************)
(* Properties of two builds of the same input                              *)
(***************************************************************************)

\* C22: the second build of an unchanged input leaves the output tree the
\* first build left, whatever the interleaving of the page workers, the
\* order of the range over the taxonomies and the time of the build.
C22_SecondBuildSameTree ==
    run = 3 => tree = firstBuild.tree

\* both builds are over, they wrote the same files in different orders
C22_Witness ==
    /\ run = 3
    /\ tlog # firstBuild.log
    /\ Cardinality(DOMAIN tree.files) >= 2

(***************************************************************************)
(* The template map and its readers                                        *)
(***************************************************************************)

\* the goroutines that have been started
Started == {w \in 1..Len(files) : wpc[w] # "none"}

\* cache.templates is assigned in loadTemplates only (main.go:160)
LoadTemplatesReturned == "loadTemplates" \in completed /\ pc # "loadTemplates"

\* the readers of the map: the page workers and renderTaxonomies
ReadersOfTemplates ==
    \/ Started # {}
    \/ pc = "renderTaxonomies"
    \/ "renderTaxonomies" \in completed

\* C23: the template map is written inside loadTemplates only, and
\* loadTemplates has returned before the first page worker is started: no
\* reader of the map runs while the map is being built.
C23_TemplatesBuiltBeforeReaders ==
    (variant = "main.go" /\ ReadersOfTemplates) => LoadTemplatesReturned

\* a page worker runs on the loaded map
C23_Witness ==
    /\ variant = "main.go"
    /\ \E w \in Started : wpc[w] = "run" /\ files[w] = "md"
    /\ LoadTemplatesReturned

(***************************************************************************)
(* The build counters                                                      *)
(***************************************************************************)

\* the workers between mu.Lock() and mu.Unlock()
InCounterUpdate == {w \in 1..Len(files) : wpc[w] \in {"load", "store", "unlock"}}

\* the workers whose increment has been stored
Incremented ==
    {w \in 1..Len(files) :
        \/ wpc[w] = "unlock"
        \/ /\ wpc[w] \in {"exit", "done"}
           /\ (files[w] = "md" => outcome[w] = "ok")}

\* C24: every update of totalPages and nonPageFiles by a worker is made
\* while holding the mutex: at most one worker is inside a counter update,
\* and no increment is lost.
C24_CountersUpdatedUnderMutex ==
    variant = "part_002" =>
        /\ Cardinality(InCounterUpdate) <= 1
        /\ \A w \in InCounterUpdate : mu = w
        /\ totalPages = Cardinality({w \in Incremented : files[w] = "md"})
        /\ nonPageFiles = Cardinality({w \in Incremented : files[w] = "other"})

\* a worker is inside its update while another one waits for the mutex
C24_Witness ==
    /\ variant = "part_002"
    /\ \E w, u \in 1..Len(files) : wpc[w] = "store" /\ wpc[u] = "lock"

(***************************************************************************)
(* Output paths                                                            *)
(***************************************************************************)

\* the kind of the entry each post of allPosts comes from
RECURSIVE PostKinds(_)
PostKinds(es) ==
    IF es = <<>> THEN <<>>
    ELSE [i \in 1..Len(Head(es).titles) |-> Head(es).kind] \o PostKinds(Tail(es))

\* the name of a .md file with its extension replaced by .html; the .md
\* file of a post is named after its title (fetchPosts.go:65)
RenamedToHtml(title) == title \o <<".html">>

\* C25: the output path of every content document is its input path with
\* the extension .md replaced by .html, in the same directory.
C25_OutputNameIsInputName ==
    \A k \in 1..Len(written) :
        PostKinds(entries)[k] = "md" => written[k] = RenamedToHtml(allPosts[k])

(***************************************************************************)
(* Accesses of the compiled-partial cache                                  *)
(***************************************************************************)

\* the callers at the lookup (cache[partialPath]) or at the insert
\* (cache[partialPath] = tmpl) of partialCached
AtCacheAccess == {c \in DOMAIN cpc : cpc[c] \in {"lookup", "store"}}

\* C26: no two page workers are inside the lookup or the insert of the
\* compiled-partial cache at the same time.
C26_CacheAccessesExcludeEachOther ==
    Cardinality(AtCacheAccess) <= 1

(***************************************************************************)
(* The join                                                                *)
(***************************************************************************)

\* the workers that have been started and have not signalled yet
Outstanding == {w \in 1..Len(files) : wpc[w] \notin {"none", "done"}}

\* C27: the join counter is raised when a worker is started and lowered
\* exactly once by every worker, so wg.Wait() does not return while a
\* worker is outstanding; under fair scheduling the join returns and the
\* build reaches its last stage.
C27_JoinReturnsAfterAllWorkers ==
    /\ [](wg = Cardinality(Outstanding))
    /\ []("wait" \in completed => Outstanding = {})
    /\ (pc = "dispatch") ~> (pc = "done")

\* the build is over after a page that failed and an entry that is no page
C27_Witness ==
    /\ pc = "done"
    /\ \E w, u \in 1..Len(files) :
          /\ files[w] = "md" /\ outcome[w] \in ProcessErrors
          /\ files[u] = "other"
    /\ \A w \in 1..Len(files) : wpc[w] = "done"

(***************************************************************************)
(* The output file of a document whose processing failed                   *)
(***************************************************************************)

\* processMarkdownFile has returned an error
ReturnedError == dpc = "done" /\ derr # "nil"

\* C28: when processing a document returns an error, no output file has
\* been created or truncated for it.
C28_FailedDocumentLeavesNoFile ==
    ReturnedError => page = {}

(***************************************************************************)
(* The names layouts are registered under                                  *)
(***************************************************************************)

\* the layout files the walk has compiled and registered so far
Registered ==
    {i \in 1..(lidx - 1) : i <= Len(layouts) /\ IsHtml(layouts[i]) /\ layouts[i].parses}

\* C29: distinct layout files are registered under distinct names: no
\* compiled layout of the map is overwritten by the registration of
\* another file.
C29_NoRegistrationOverwritten ==
    \A i \in Registered :
        /\ templateKey(variant, layouts[i].rel) \in DOMAIN templates
        /\ templates[templateKey(variant, layouts[i].rel)] = layouts[i].rel

(***************************************************************************)
(* The files of the posts                                                  *)
(***************************************************************************)

\* the file the post of index k was written to
WrittenPath(k) == filePath(PostFolders(entries)[k], written[k])

\* C30: each post of a build is written to a file no earlier post of the
\* build was written to, so no post's output overwrites another's.
C30_NoPostOverwritesAnother ==
    \A j, k \in 1..Len(written) : j < k => WrittenPath(j) # WrittenPath(k)

====
